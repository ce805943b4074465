------------------------------ MODULE Service ------------------------------
(***************************************************************************)
(* The life of the service process (service.py main): the checks of a      *)
(* start, the tables it opens and migrates, the sinkhole slot, the threads *)
(* it sets going, the console's handlers while it serves, and its end: by  *)
(* a request to stop and the finalizer thread that request starts, by an   *)
(* exception of the web server, or by a kill at any point.  A host is      *)
(* either Linux, where a signal makes the request, or Windows, where the   *)
(* service control manager does (winservice.py).                           *)
(*                                                                         *)
(* What the sinkhole writes is in Sinkhole; here it is the set of managed  *)
(* names in the hosts file and the index of each object made for the slot. *)
(* Who rewrites the file (a cleanup or the reaper) reads, truncates and    *)
(* writes it with no lock held, while the other threads go on.             *)
(***************************************************************************)
EXTENDS Integers, Sequences, FiniteSets

CONSTANTS
  Names,       (* names the engine may sink                                *)
  Domains,     (* domains the operator may mute                            *)
  Seeds,       (* --mute-domain                                            *)
  Consoles,    (* request threads of the API                               *)
  Finalizers,  (* bound: requests to stop a process may get                *)
  Maint,       (* the maintenance thread                                   *)
  AtBoot,      (* --sinkhole                                               *)
  Hosts,       (* what the machine may be like                             *)
  Patience,    (* calls of request_stop the Windows service makes          *)
  MaxRequests, (* bound: requests sent to a console                        *)
  MaxObjects,  (* bound: sinkhole objects made in one life                 *)
  MaxStarts    (* bound: starts of the process                             *)

ASSUME ServiceAssumption ==
  /\ {Patience, MaxRequests, MaxObjects, MaxStarts} \subseteq Nat
  /\ Maint \notin Finalizers \cup Consoles /\ Finalizers \cap Consoles = {}
  /\ Seeds \subseteq Domains /\ AtBoot \in BOOLEAN
  /\ Hosts \subseteq [windows : BOOLEAN, root : BOOLEAN, raw : BOOLEAN, uplink : BOOLEAN,
                      iface : {"", "any", "auto", "named"}]

VARIABLES
  host,      (* the machine of this run                                    *)
  phase,     (* how far main() has come                                    *)
  starts,    (* starts so far                                              *)
  ended,     (* history: how the last process ended, while none runs       *)
  hook,      (* _stop_hook is published and the signal handlers are set    *)
  stop,      (* stop_event                                                 *)
  svcStop,   (* _stop_service: calls so far, -1 before SvcStop, GivenUp    *)
  final,     (* the finalizer threads                                      *)
  file,      (* managed names in the hosts file                            *)
  slot,      (* SinkholeSlot.obj: a serial number, 0 for None              *)
  policy,    (* mitigation.sinkhole, likewise                              *)
  index,     (* per object made: the names it knows to be sunk             *)
  work,      (* per thread that may rewrite the file: how far it has come  *)
  raced,     (* history: a write and a rewrite met, see GuardKnowsFile     *)
  batch,     (* the worker is in a batch                                   *)
  hand,      (* the sinkhole the verdict under way has picked up, or 0     *)
  request,   (* per request thread: what it does and where it is           *)
  asked,     (* requests sent so far                                       *)
  mutedTable,(* table muted_domains                                        *)
  muted,     (* ExfilTrapPipeline._muted                                   *)
  slip,      (* history: a change of the table missed the live set         *)
  aside,     (* a standalone dashboard runs beside the service            *)
  ledger     (* the migration of blocked_ips                               *)

GivenUp == -2

process == <<host, phase, starts, ended, hook, stop, svcStop, final>>
rewrites == <<work, raced>>
sinkhole == <<file, slot, policy, index, rewrites>>
engine == <<batch, hand>>
console == <<request, asked>>
tables == <<mutedTable, ledger, aside>>
mutes == <<muted, slip>>
vars == <<process, sinkhole, engine, console, tables, mutes>>

-----------------------------------------------------------------------------
Idle == [op |-> "none", step |-> "done", domain |-> {}, seen |-> {}, obj |-> 0]

Workers == Finalizers \cup Consoles \cup {Maint}
AtRest == [at |-> "none", obj |-> 0, todo |-> {}, copy |-> {}]
NoWork == [w \in Workers |-> AtRest]

(* The rows of a database from before 1.5, or a current one.               *)
OldLedger == [main |-> "old", rows |-> TRUE, legacy |-> FALSE]
NewLedger == [main |-> "new", rows |-> TRUE, legacy |-> FALSE]

Init ==
  /\ host \in Hosts /\ phase = "down" /\ starts = 0 /\ ended = "killed"
  /\ hook = FALSE /\ stop = FALSE /\ svcStop = -1 /\ final = [f \in Finalizers |-> "none"]
  /\ file = {} /\ slot = 0 /\ policy = 0 /\ index = <<>>
  /\ work = NoWork /\ raced = FALSE
  /\ batch = FALSE /\ hand = 0 /\ request = [c \in Consoles |-> Idle] /\ asked = 0
  /\ mutedTable = {} /\ muted = {} /\ slip = FALSE
  /\ ledger \in {OldLedger, NewLedger} /\ aside = FALSE

(* The process is gone: the file and the tables are what is left.          *)
Gone(how) ==
  /\ phase' = "down" /\ ended' = how
  /\ hook' = FALSE /\ stop' = FALSE /\ svcStop' = -1 /\ final' = [f \in Finalizers |-> "none"]
  /\ slot' = 0 /\ policy' = 0 /\ index' = <<>> /\ batch' = FALSE /\ hand' = 0
  /\ work' = NoWork /\ raced' = FALSE
  /\ request' = [c \in Consoles |-> Idle] /\ muted' = {} /\ slip' = FALSE
  /\ UNCHANGED <<host, starts, file, asked>>

Kill == phase # "down" /\ Gone("killed") /\ UNCHANGED tables

-----------------------------------------------------------------------------
(* The start.                                                              *)

(* netif.default_interface, which finds the default route or does not.     *)
Uplink(h) == IF h.uplink THEN {"uplink"} ELSE {}

(* The SCM names an adapter in every case: the default route's, the first  *)
(* that is up, or a literal.  A console user gives one or leaves it out.   *)
Asked(h) == IF h.windows /\ h.iface \in {"", "auto"} THEN "named" ELSE h.iface

(* resolve_interfaces: none when the uplink cannot be detected, unless the *)
(* default adds the loopback interface to it.                              *)
Targets(h) ==
  CASE Asked(h) = ""     -> Uplink(h) \cup {"lo"}
    [] Asked(h) = "auto" -> Uplink(h)
    [] OTHER             -> {Asked(h)}

(* privileges.has_capture_capability                                       *)
MayCapture(h) == h.root \/ (h.raw /\ ~ h.windows)

Start ==
  /\ phase = "down" /\ starts < MaxStarts
  /\ starts' = starts + 1
  /\ phase' = "check" /\ ended' = "runs"
  /\ UNCHANGED <<host, hook, stop, svcStop, final, sinkhole, engine, console, tables, mutes>>

Check ==
  /\ phase = "check"
  /\ IF Targets(host) # {} /\ MayCapture(host)
     THEN phase' = "open" /\ UNCHANGED <<host, starts, ended, hook, stop, svcStop, final, sinkhole,
                                         engine, console, mutes>>
     ELSE Gone("refused")
  /\ UNCHANGED tables

(* A defect: the old table goes before its rows are copied.                *)
MigratedEarly(l) ==
  IF l.main = "none" THEN [l EXCEPT !.main = "filling", !.legacy = FALSE]
  ELSE IF l.main = "filling" THEN [l EXCEPT !.main = "new", !.rows = TRUE]
  ELSE IF l.main = "old" THEN [main |-> "none", rows |-> FALSE, legacy |-> TRUE] ELSE l

(* Storage.__init__: the schema creates what is missing, then _migrate     *)
(* rewrites an old blocked_ips in four statements, each on disk at once.   *)
Migrated(l) ==
  CASE l.main = "old"                   -> [l EXCEPT !.main = "none", !.legacy = TRUE, !.rows = FALSE]
    [] l.main = "none"                  -> [l EXCEPT !.main = "filling"]
    [] l.main = "filling" /\ ~ l.rows   -> [l EXCEPT !.rows = TRUE]
    [] l.main = "filling" /\ l.rows     -> [l EXCEPT !.main = "new", !.legacy = FALSE]
    [] OTHER                            -> l
Schema(l) == IF l.main \in {"none", "filling"} THEN [l EXCEPT !.main = "new"] ELSE l

Open ==
  /\ phase = "open"
  /\ ledger' = Schema(ledger)
  /\ phase' = "migrate"
  /\ UNCHANGED <<host, starts, ended, hook, stop, svcStop, final, sinkhole, engine, console,
                 mutedTable, aside, mutes>>

Migrate ==
  /\ phase = "migrate"
  /\ ledger' = Migrated(ledger)
  /\ IF ledger.main = "new"
     THEN phase' = "build" /\ mutedTable' = mutedTable \cup Seeds
     ELSE UNCHANGED <<phase, mutedTable>>
  /\ UNCHANGED <<host, starts, ended, hook, stop, svcStop, final, sinkhole, engine, console, aside,
                 mutes>>

(* A defect: a new sinkhole adopts nothing.                                *)
MadeBlank == Append(index, {})

(* A new DomainSinkhole knows every managed line it finds (Sinkhole.Start).*)
Made == Append(index, file)
CanMake == Len(index) < MaxObjects

(* The slot, the policy and the pipeline are built from the tables.        *)
Build ==
  /\ phase = "build"
  /\ phase' = "publish"
  /\ IF AtBoot THEN index' = Made /\ slot' = Len(index) + 1 ELSE UNCHANGED <<index, slot>>
  /\ policy' = slot'
  /\ muted' = mutedTable /\ slip' = FALSE
  /\ UNCHANGED <<host, starts, ended, hook, stop, svcStop, final, file, rewrites, engine, console,
                 tables>>

Publish ==
  /\ phase = "publish"
  /\ phase' = "feed" /\ hook' = TRUE
  /\ UNCHANGED <<host, starts, ended, stop, svcStop, final, sinkhole, engine, console, tables, mutes>>

Feed ==
  /\ phase = "feed"
  /\ phase' = "run"
  /\ UNCHANGED <<host, starts, ended, hook, stop, svcStop, final, sinkhole, engine, console,
                 tables, mutes>>

(* app.run binds the port and never returns, or raises.                    *)
Run ==
  /\ phase = "run"
  /\ \/ phase' = "serving" /\ stop' = stop
     \/ phase' = "ending" /\ stop' = TRUE
  /\ UNCHANGED <<host, starts, ended, hook, svcStop, final, sinkhole, engine, console, tables, mutes>>

(* The finally clause closes the storage and returns.                      *)
Return ==
  /\ phase = "ending"
  /\ Gone("raised")
  /\ UNCHANGED tables

-----------------------------------------------------------------------------
(* The end.                                                                *)

(* A defect: the event is set and no finalizer follows.                    *)
RequestStopSilent(f) ==
  /\ final[f] = "none"
  /\ stop' = TRUE
  /\ UNCHANGED final

(* _request_stop: each call starts a finalizer thread.                     *)
RequestStop(f) ==
  /\ final[f] = "none"
  /\ stop' = TRUE
  /\ final' = [final EXCEPT ![f] = "sleep"]

(* request_stop: true once a hook is there to be called.                   *)
AskStop(f) == hook /\ RequestStop(f)

Signal(f) ==
  /\ ~ host.windows /\ hook /\ RequestStop(f)
  /\ UNCHANGED <<host, phase, starts, ended, hook, svcStop, sinkhole, engine, console, tables, mutes>>

(* SvcStop sets an event; a thread then polls for the hook, a bounded      *)
(* number of times, however long the start takes.                          *)
SvcStop ==
  /\ host.windows /\ phase # "down" /\ svcStop = -1 /\ ~ stop
  /\ svcStop' = 0
  /\ UNCHANGED <<host, phase, starts, ended, hook, stop, final, sinkhole, engine, console, tables, mutes>>

Poll(f) ==
  /\ svcStop >= 0 /\ ~ stop
  /\ \/ AskStop(f) /\ UNCHANGED svcStop
     \/ /\ ~ hook
        /\ svcStop' = IF svcStop + 1 < Patience THEN svcStop + 1 ELSE GivenUp
        /\ UNCHANGED <<stop, final>>
  /\ UNCHANGED <<host, phase, starts, ended, hook, sinkhole, engine, console, tables, mutes>>

(* Who has begun to clean an object up, and has come to one of the steps.  *)
Cleaning(o, steps) == \E w \in Workers : work[w].at \in steps /\ work[w].obj = o
Removing == work[Maint].at # "none"

(* DomainSinkhole.cleanup of an object o by a thread w: it will truncate   *)
(* the file, write back what it has read but for the managed lines, which  *)
(* leaves none of them, and then clear the index.                          *)
Cleanup(w, o) ==
  /\ work' = [work EXCEPT ![w] = [AtRest EXCEPT !.at = "truncate", !.obj = o]]
  /\ raced' = (raced \/ (o = slot /\ Removing))

(* After 5 s the finalizer clears the slot if it is armed.  The last batch *)
(* of the worker and the requests of the console may still be under way.   *)
Clear(f) ==
  /\ final[f] = "sleep"
  /\ IF slot # 0 THEN Cleanup(f, slot) ELSE UNCHANGED rewrites
  /\ final' = [final EXCEPT ![f] = "close"]
  /\ UNCHANGED <<host, phase, starts, ended, hook, stop, svcStop, file, slot, policy, index, engine,
                 console, tables, mutes>>

(* storage.close() and, whatever it does, os._exit.                        *)
Exit(f) ==
  /\ final[f] = "close" /\ work[f] = AtRest
  /\ Gone("stopped")
  /\ UNCHANGED tables

-----------------------------------------------------------------------------
(* The engine and the maintenance thread, seen from the slot.              *)
Feeding == phase \in {"run", "serving", "ending"}

TakeBatch ==
  /\ Feeding /\ ~ stop /\ ~ batch
  /\ batch' = TRUE
  /\ UNCHANGED <<process, sinkhole, hand, console, tables, mutes>>

(* A verdict reads mitigation.sinkhole and then calls the object it got.   *)
PickUp ==
  /\ batch /\ hand = 0 /\ policy # 0
  /\ hand' = policy
  /\ UNCHANGED <<process, sinkhole, batch, console, tables, mutes>>

Sink(n) ==
  /\ hand # 0
  /\ file' = file \cup {n}
  /\ index' = [index EXCEPT ![hand] = @ \cup {n}]
  /\ hand' = 0
  /\ raced' = (raced \/ (slot # 0 /\ hand # slot) \/ Cleaning(hand, {"write", "clear"}))
  /\ UNCHANGED <<process, slot, policy, work, batch, console, tables, mutes>>

EndBatch ==
  /\ batch /\ hand = 0
  /\ batch' = FALSE
  /\ UNCHANGED <<process, sinkhole, hand, console, tables, mutes>>

(* The reaper takes what has expired out of the index of the object the    *)
(* policy has, and then the lines out of the file, one name after another. *)
Reap ==
  /\ Feeding /\ ~ stop /\ policy # 0 /\ ~ Removing
  /\ \E freed \in (SUBSET index[policy]) \ {{}} :
       /\ index' = [index EXCEPT ![policy] = @ \ freed]
       /\ work' = [work EXCEPT ![Maint] = [AtRest EXCEPT !.at = "read", !.todo = freed]]
  /\ raced' = (raced \/ Cleaning(slot, {"truncate", "write", "clear"}))
  /\ UNCHANGED <<process, file, slot, policy, engine, console, tables, mutes>>

(* _remove_entry: what is to be kept is read,                              *)
ReadLines ==
  /\ work[Maint].at = "read"
  /\ \E n \in work[Maint].todo :
       work' = [work EXCEPT ![Maint].at = "truncate", ![Maint].todo = @ \ {n}, ![Maint].copy = file \ {n}]
  /\ UNCHANGED <<process, file, slot, policy, index, raced, engine, console, tables, mutes>>

(* the file is opened for writing, by the reaper or in a cleanup,          *)
Truncate(w) ==
  /\ work[w].at = "truncate"
  /\ file' = {}
  /\ work' = [work EXCEPT ![w].at = "write"]
  /\ UNCHANGED <<process, slot, policy, index, raced, engine, console, tables, mutes>>

(* and written.  What others have put into it meanwhile may be overwritten.*)
Written(r) ==
  CASE r.obj # 0   -> [r EXCEPT !.at = "clear"]
    [] r.todo # {} -> [r EXCEPT !.at = "read", !.copy = {}]
    [] OTHER       -> AtRest

WriteBack(w) ==
  /\ work[w].at = "write"
  /\ \E rest \in SUBSET file : file' = work[w].copy \cup rest
  /\ work' = [work EXCEPT ![w] = Written(work[w])]
  /\ UNCHANGED <<process, slot, policy, index, raced, engine, console, tables, mutes>>

(* The end of a cleanup.                                                   *)
ClearIndex(w) ==
  /\ work[w].at = "clear"
  /\ index' = [index EXCEPT ![work[w].obj] = {}]
  /\ work' = [work EXCEPT ![w] = AtRest]
  /\ UNCHANGED <<process, file, slot, policy, raced, engine, console, tables, mutes>>

Rewriting(w) == Truncate(w) \/ WriteBack(w) \/ ClearIndex(w)

-----------------------------------------------------------------------------
(* The console's handlers; they are served until the process is gone.      *)
At(c, op, step) == phase = "serving" /\ request[c].op = op /\ request[c].step = step
Goto(c, step) == request' = [request EXCEPT ![c].step = step]
Finish(c) == request' = [request EXCEPT ![c] = Idle]

(* A request of the operator, when the last one of the thread is answered. *)
Ask(c) ==
  /\ phase = "serving" /\ request[c] = Idle /\ work[c] = AtRest
  /\ asked < MaxRequests /\ asked' = asked + 1
  /\ \/ \E op \in {"arm", "disarm", "clear"} :
          request' = [request EXCEPT ![c] = [Idle EXCEPT !.op = op, !.step = "slot"]]
     \/ \E d \in Domains :
          \/ request' = [request EXCEPT ![c] = [Idle EXCEPT !.op = "mute", !.step = "store", !.domain = {d}]]
          \/ request' = [request EXCEPT ![c] = [Idle EXCEPT !.op = "unmute", !.step = "read", !.domain = {d}]]
  /\ UNCHANGED <<process, sinkhole, engine, tables, mutes>>

(* SinkholeSlot.arm: an empty slot is looked at before the object is made. *)
Arm(c) ==
  /\ At(c, "arm", "slot")
  /\ IF slot = 0 THEN CanMake /\ Goto(c, "make") ELSE Goto(c, "load")
  /\ UNCHANGED <<process, sinkhole, asked, engine, tables, mutes>>

Make(c) ==
  /\ At(c, "arm", "make") /\ CanMake
  /\ index' = Made /\ slot' = Len(index) + 1
  /\ raced' = Removing
  /\ Goto(c, "load")
  /\ UNCHANGED <<process, file, policy, work, asked, engine, tables, mutes>>

(* SinkholeSlot.disarm: the object leaves the slot and is then cleaned up. *)
Disarm(c) ==
  /\ At(c, "disarm", "slot")
  /\ slot' = 0
  /\ request' = [request EXCEPT ![c].obj = slot, ![c].step = IF slot = 0 THEN "load" ELSE "clean"]
  /\ UNCHANGED <<process, file, policy, index, rewrites, asked, engine, tables, mutes>>

Clean(c) ==
  /\ At(c, "disarm", "clean")
  /\ Cleanup(c, request[c].obj)
  /\ Goto(c, "load")
  /\ UNCHANGED <<process, file, slot, policy, index, asked, engine, tables, mutes>>

(* A defect: the policy keeps an object that was disarmed.                 *)
HandedArmed == IF slot = 0 THEN policy ELSE slot

(* _sinkhole_set loads what is in the slot, and hands it to the policy.    *)
Handed == slot
Load(c) ==
  /\ At(c, "arm", "load") \/ At(c, "disarm", "load")
  /\ work[c] = AtRest
  /\ request' = [request EXCEPT ![c].obj = Handed, ![c].step = "attach"]
  /\ UNCHANGED <<process, sinkhole, asked, engine, tables, mutes>>

Attach(c) ==
  /\ At(c, "arm", "attach") \/ At(c, "disarm", "attach")
  /\ policy' = request[c].obj
  /\ Finish(c)
  /\ UNCHANGED <<process, file, slot, index, rewrites, asked, engine, tables, mutes>>

(* SinkholeSlot.clear                                                      *)
ClearNow(c) ==
  /\ At(c, "clear", "slot")
  /\ IF slot # 0 THEN Cleanup(c, slot) ELSE UNCHANGED rewrites
  /\ Finish(c)
  /\ UNCHANGED <<process, file, slot, policy, index, asked, engine, tables, mutes>>

(* _mute_add writes the table, then the live set; _mute_remove the other   *)
(* way round.  A write that raises ends the handler.                       *)
Store(c) ==
  /\ At(c, "mute", "store") \/ At(c, "unmute", "store")
  /\ \/ /\ mutedTable' = IF request[c].op = "mute" THEN mutedTable \cup request[c].domain
                                                   ELSE mutedTable \ request[c].domain
        /\ IF request[c].op = "mute" THEN Goto(c, "read") ELSE Finish(c)
        /\ UNCHANGED slip
     \/ /\ Finish(c)
        /\ slip' = (slip \/ request[c].op = "unmute")
        /\ UNCHANGED mutedTable
  /\ UNCHANGED <<process, sinkhole, asked, engine, ledger, aside, muted>>

(* The live set is read, and the changed copy takes its place.             *)
Read(c) ==
  /\ At(c, "mute", "read") \/ At(c, "unmute", "read")
  /\ request' = [request EXCEPT ![c].step = "bind",
       ![c].seen = IF request[c].op = "mute" THEN muted \cup request[c].domain
                                             ELSE muted \ request[c].domain]
  /\ UNCHANGED <<process, sinkhole, asked, engine, tables, mutes>>

Bind(c) ==
  /\ At(c, "mute", "bind") \/ At(c, "unmute", "bind")
  /\ muted' = request[c].seen
  /\ IF request[c].op = "unmute" THEN Goto(c, "store") ELSE Finish(c)
  /\ UNCHANGED <<process, sinkhole, asked, engine, tables, slip>>

(* The launcher opens the console of the service if it answers; a console  *)
(* of its own, with no engine attached, runs on the given database, or     *)
(* where no service answers.                                               *)
Launch(given) ==
  /\ ~ aside
  /\ aside' = (given \/ phase # "serving")
  /\ UNCHANGED <<process, sinkhole, engine, console, mutedTable, ledger, mutes>>

(* On the database of the service it edits the table alone.                *)
EditAside(d) ==
  /\ aside
  /\ asked < MaxRequests /\ asked' = asked + 1
  /\ mutedTable' = (mutedTable \ {d}) \cup ({d} \ mutedTable)
  /\ slip' = TRUE
  /\ UNCHANGED <<process, sinkhole, engine, request, ledger, aside, muted>>

-----------------------------------------------------------------------------
Starting == Check \/ Open \/ Migrate \/ Build \/ Publish \/ Feed \/ Run \/ Return
Requested == \E f \in Finalizers : Poll(f) \/ Clear(f) \/ Rewriting(f) \/ Exit(f)
Working == TakeBatch \/ PickUp \/ EndBatch \/ (\E n \in Names : Sink(n))
           \/ Reap \/ ReadLines \/ \E w \in Consoles \cup {Maint} : Rewriting(w)
Handling ==
  \E c \in Consoles : \/ Ask(c) \/ Arm(c) \/ Make(c) \/ Disarm(c) \/ Clean(c) \/ Load(c) \/ Attach(c)
                     \/ ClearNow(c) \/ Store(c) \/ Read(c) \/ Bind(c)
Outside == Start \/ Kill \/ SvcStop \/ (\E f \in Finalizers : Signal(f))
           \/ (\E given \in BOOLEAN : Launch(given)) \/ \E d \in Domains : EditAside(d)

Next == Starting \/ Requested \/ Working \/ Handling \/ Outside

(* The threads of the process are scheduled: a start goes on, and so does  *)
(* a request to stop once it is made.  Nothing outside need ever happen.   *)
Spec == Init /\ [][Next]_vars /\ WF_vars(Starting) /\ WF_vars(Requested)

-----------------------------------------------------------------------------
Phases == {"down", "check", "open", "migrate", "build", "publish", "feed", "run", "serving", "ending"}
Objects == 1 .. Len(index)
Built == phase \in {"publish", "feed", "run", "serving", "ending"}

(* The variables hold what the program may put in them.                    *)
TypeOK ==
  /\ host \in Hosts /\ phase \in Phases /\ starts \in 0 .. MaxStarts /\ asked \in 0 .. MaxRequests
  /\ ended \in {"runs", "killed", "refused", "raised", "stopped"}
  /\ {hook, stop, batch, slip, aside, raced} \subseteq BOOLEAN /\ svcStop \in GivenUp .. Patience
  /\ final \in [Finalizers -> {"none", "sleep", "close"}]
  /\ file \subseteq Names /\ index \in Seq(SUBSET Names)
  /\ {slot, policy, hand} \subseteq Objects \cup {0}
  /\ work \in [Workers -> [at : {"none", "read", "truncate", "write", "clear"}, obj : Nat,
                          todo : SUBSET Names, copy : SUBSET Names]]
  /\ mutedTable \cup muted \subseteq Domains
  /\ ledger \in [main : {"old", "none", "filling", "new"}, rows : BOOLEAN, legacy : BOOLEAN]

(* Whoever guards the hosts file knows every managed line in it between    *)
(* two rounds of the reaper, however the guard before it ended: a kill in  *)
(* the middle of a rewrite, a disarming that raced a verdict, a finalizer. *)
(* A line it did not know would never be reaped.  It may miss one only if, *)
(* in its time, a verdict wrote it between the write of a cleanup and the  *)
(* clearing of the index, or through an object that was disarmed, or if    *)
(* the reaper had a copy of the file while it was cleaned up or adopted.   *)
GuardKnowsFile == TypeOK /\ (slot # 0 /\ ~ raced /\ ~ Removing => file \subseteq index[slot])

(* Between two requests of the console the policy uses what is in the slot:*)
(* nothing that was disarmed, and nothing else than what is armed.         *)
SlotAgrees == Built /\ (\A c \in Consoles : request[c] = Idle) => policy = slot

(* "the DB is the source of truth": between two requests of one console    *)
(* the live set is the table, over kills and restarts, unless a change     *)
(* bypassed it; and the rows of an old ledger are copied before they go.   *)
TablesSurvive ==
  /\ Built /\ (\A c \in Consoles : request[c] = Idle) /\ ~ slip => muted = mutedTable
  /\ ledger.rows \/ ledger.legacy

(* "The hosts file must NEVER stay poisoned past this process"             *)
(* (service.py:773): a process that was asked to stop leaves no line.      *)
CleanExit == phase = "down" /\ ended = "stopped" => file = {}

(* A request to stop ends the process, once it has set the event or there *)
(* is a hook for the thread that polls for one.                            *)
StopEnds == stop \/ (hook /\ svcStop >= 0) ~> phase = "down"

-----------------------------------------------------------------------------
(* What the repository says and the code does not do, each with a          *)
(* configuration of its own.                                               *)

(* The names freed by a clearing are forgotten (mitigation.py:545) as if   *)
(* their lines were gone: without the excuses of GuardKnowsFile they stay. *)
GuardAlwaysKnows == slot # 0 /\ ~ Removing => file \subseteq index[slot]

(* "Wait briefly for it rather than leaving the service hanging on stop"   *)
(* (winservice.py:126): the calls may end before the start does.           *)
StopIsKept == stop \/ svcStop # -1 ~> phase = "down"

=============================================================================
