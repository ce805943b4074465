------------------------------ MODULE Desktop ------------------------------
(***************************************************************************)
(* The desktop shell (main.rs): the look at the API when it opens, the     *)
(* automatic start of the bundled engine, the Start button, the root       *)
(* script both of them run, and the poll that opens the dashboard.         *)
(*                                                                         *)
(* The engine processes are seen from outside: one is starting, holds the  *)
(* port of the API or not, and, told to stop, lives on in its finalizer    *)
(* (Service).  Engines also come from a systemd unit or from a terminal;   *)
(* only those of the bundle have the process name the script looks for.    *)
(***************************************************************************)
EXTENDS Integers, Sequences, FiniteSets

CONSTANTS
  Presses,     (* bound: presses of the Start button                       *)
  Packages,    (* how the shell may be installed                           *)
  MaxOutside,  (* bound: engines not started by the shell                  *)
  SlowStart    (* an engine needs longer to bind than a finalizer sleeps   *)

ASSUME DesktopAssumption ==
  /\ Packages \subseteq {"deb", "appimage", "flatpak", "user flatpak", "bare", "windows"}
  /\ "auto" \notin Presses /\ MaxOutside \in Nat /\ SlowStart \in BOOLEAN

VARIABLES
  package,   (* the installation of this run                               *)
  window,    (* "closed", "waiting" for an engine, on the "dashboard"      *)
  step,      (* per start: how far it is                                   *)
  stage,     (* the mirror of an AppImage's engine in /tmp                 *)
  dir,       (* /var/lib/exfiltrap/engine                                  *)
  maker,     (* the start whose cp made that directory                     *)
  engines,   (* the engine processes, in the order they were launched      *)
  port,      (* the engine that listens on the port of the API, 0 for none *)
  overlap,   (* history: the starts another start or others interfered with*)
  last       (* history: how the last start ended, unless an engine has    *)
             (* gone since by itself or was stopped by others              *)

shell == <<package, window>>
files == <<stage, dir, maker>>
system == <<engines, port>>
history == <<overlap, last>>
shellVars == <<shell, step, files, system, history>>

-----------------------------------------------------------------------------
Starts == {"auto"} \cup Presses
Ended == {"ok", "failed", "skipped"}
Rooted == {"systemctl", "pkill", "rm", "cp", "copying", "launch", "look"}
Staging == {"unstage", "restage"}

ShellInit ==
  /\ package \in Packages /\ window = "closed"
  /\ step = [s \in Starts |-> "none"]
  /\ stage = "none" /\ dir \in {"none", "whole"} /\ maker = "none"
  /\ engines = <<>> /\ port = 0
  /\ overlap = {} /\ last = "none"

Proceed(s, to) == step' = [step EXCEPT ![s] = to]
End(s, how) == Proceed(s, how) /\ last' = how

(* Two starts interfere while both touch the files or the processes; the   *)
(* mirror of an AppImage stays in use during the prompt.                   *)
Touches(s) == step[s] \in Rooted \cup Staging \/ (package = "appimage" /\ step[s] = "prompt")
Others(s) == {t \in Starts \ {s} : Touches(t)}
Meets(s) == overlap' = IF Others(s) = {} THEN overlap ELSE overlap \cup {s} \cup Others(s)

-----------------------------------------------------------------------------
(* The engines.                                                            *)
Alive(e) == engines[e].state # "gone"
Stopping == {e \in DOMAIN engines : engines[e].state = "stopping"}
Running == {e \in DOMAIN engines : engines[e].state \in {"starting", "serving"}}

Launched(kind, shaky) ==
  engines' = Append(engines, [kind |-> kind, state |-> "starting", shaky |-> shaky, after |-> Stopping])

Leave(E) ==
  /\ engines' = [e \in DOMAIN engines |->
                   IF e \in E THEN [engines[e] EXCEPT !.state = "gone", !.after = {}] ELSE engines[e]]
  /\ port' = IF port \in E THEN 0 ELSE port

(* app.run: a port in use ends the process.                                *)
Listen(e) ==
  /\ port # e /\ engines[e].state \in {"starting", "stopping"}
  /\ SlowStart => \A d \in engines[e].after : ~ Alive(d)
  /\ IF port = 0
     THEN /\ port' = e
          /\ engines' = [engines EXCEPT ![e].state = IF @ = "starting" THEN "serving" ELSE @]
     ELSE Leave({e})
  /\ UNCHANGED <<shell, step, files, history>>

(* The finalizer is through.                                               *)
FinalizerDone(e) ==
  /\ e \in Stopping /\ Leave({e})
  /\ UNCHANGED <<shell, step, files, history>>

(* What happens to an engine from elsewhere is not the doing of a start.   *)
Elsewhere == last' = "none" /\ overlap' = overlap \cup {t \in Starts : Touches(t)}

(* An engine refuses to start, or misses files of its directory.           *)
Refuse(e) ==
  /\ engines[e].state = "starting" \/ (engines[e].shaky /\ Alive(e))
  /\ Leave({e})
  /\ IF engines[e].shaky THEN UNCHANGED history ELSE Elsewhere
  /\ UNCHANGED <<shell, step, files>>

(* A unit or an operator starts an engine, or asks one of theirs to stop.  *)
FromOutside(kind) ==
  /\ Cardinality({e \in DOMAIN engines : engines[e].kind # "bundle"}) < MaxOutside
  /\ Launched(kind, FALSE)
  /\ UNCHANGED <<shell, step, files, port, history>>

AskToStop(E) ==
  engines' = [e \in DOMAIN engines |->
                IF e \in E /\ engines[e].state # "gone" THEN [engines[e] EXCEPT !.state = "stopping"]
                                                        ELSE engines[e]]
StopOutside(e) ==
  /\ engines[e].kind # "bundle" /\ e \in Running
  /\ AskToStop({e})
  /\ Elsewhere
  /\ UNCHANGED <<shell, step, files, port>>

-----------------------------------------------------------------------------
(* The shell.                                                              *)

(* setup: no automatic start on Windows.                                   *)
OpenShell ==
  /\ window = "closed" /\ step["auto"] = "none"
  /\ window' = "waiting"
  /\ IF package = "windows" THEN UNCHANGED step ELSE Proceed("auto", "check")
  /\ UNCHANGED <<package, files, system, history>>

(* A defect: the loop ends with the automatic start.                       *)
WaitingForStart == window = "waiting" /\ step["auto"] \notin Ended

(* The loop that asks for the API every two seconds.                       *)
AwaitingApi == window = "waiting"
PollApi ==
  /\ AwaitingApi /\ port # 0
  /\ window' = "dashboard"
  /\ UNCHANGED <<package, step, files, system, history>>

Quit ==
  /\ window # "closed" /\ window' = "closed"
  /\ UNCHANGED <<package, step, files, system, history>>

(* autostart_engine                                                        *)
AskApi ==
  /\ step["auto"] = "check"
  /\ Proceed("auto", IF port # 0 THEN "skipped" ELSE "locate")
  /\ UNCHANGED <<shell, files, system, history>>

(* start_service; the button is on the waiting page.                       *)
Press(s) ==
  /\ window = "waiting" /\ step[s] = "none"
  /\ Proceed(s, IF package = "windows" THEN "net" ELSE "locate")
  /\ UNCHANGED <<shell, files, system, history>>

(* `net start`: only the SCM starts the service, for those it lets.        *)
NetStart(s) ==
  /\ step[s] = "net"
  /\ \/ /\ \A e \in DOMAIN engines : ~ Alive(e)
        /\ Launched("service", FALSE) /\ End(s, "ok")
     \/ End(s, "failed") /\ UNCHANGED engines
  /\ UNCHANGED <<shell, files, port, overlap>>

(* build_launch_script: root cannot read an AppImage mount, so the engine  *)
(* is mirrored first: the old mirror is removed, then filled again.        *)
Locate(s) ==
  /\ step[s] = "locate"
  /\ IF package = "bare" THEN End(s, "failed")
     ELSE Proceed(s, IF package = "appimage" THEN "unstage" ELSE "prompt") /\ UNCHANGED last
  /\ UNCHANGED <<shell, files, system, overlap>>

Unstage(s) ==
  /\ step[s] = "unstage" /\ Meets(s)
  /\ stage' = "partial" /\ Proceed(s, "restage")
  /\ UNCHANGED <<shell, dir, maker, system, last>>

Restage(s) ==
  /\ step[s] = "restage"
  /\ \/ stage' = "whole" /\ Proceed(s, "prompt") /\ UNCHANGED last
     \/ stage' = "partial" /\ End(s, "failed")
  /\ UNCHANGED <<shell, dir, maker, system, overlap>>

(* run_pkexec: the operator authorizes the script or declines.             *)
Prompt(s) ==
  /\ step[s] = "prompt"
  /\ \/ Proceed(s, "systemctl") /\ Meets(s) /\ UNCHANGED last
     \/ End(s, "failed") /\ UNCHANGED overlap
  /\ UNCHANGED <<shell, files, system>>

-----------------------------------------------------------------------------
(* The root script.                                                        *)

(* systemctl stop returns when the unit is down.                           *)
StopUnit(s) ==
  /\ step[s] = "systemctl" /\ Proceed(s, "pkill")
  /\ Leave({e \in DOMAIN engines : engines[e].kind = "unit"})
  /\ UNCHANGED <<shell, files, history>>

Named == {e \in DOMAIN engines : engines[e].kind = "bundle" /\ Alive(e)}

(* SIGTERM asks an engine to stop, or ends one whose handler is not set.   *)
Pkill(s) ==
  /\ step[s] = "pkill" /\ Proceed(s, "rm")
  /\ \/ AskToStop(Named) /\ UNCHANGED port
     \/ Leave({e \in Named : engines[e].state = "starting"})
        /\ {e \in Named : engines[e].state = "serving"} = {}
  /\ UNCHANGED <<shell, files, history>>

(* rm -rf: meets an error when another start is copying into the directory.*)
Remove(s) ==
  /\ step[s] = "rm"
  /\ \/ /\ dir' = "none" /\ maker' = "none" /\ Proceed(s, "cp")
        /\ engines' = [e \in DOMAIN engines |->
                         [engines[e] EXCEPT !.shaky = @ \/ (engines[e].kind = "bundle" /\ Alive(e))]]
        /\ UNCHANGED last
     \/ \E t \in Starts \ {s} : step[t] = "copying" /\ End(s, "failed") /\ UNCHANGED <<dir, maker, engines>>
  /\ UNCHANGED <<shell, stage, port, overlap>>

(* cp -r into a directory that is there puts the copy inside it.           *)
Copy(s) ==
  /\ step[s] = "cp" /\ Proceed(s, "copying")
  /\ IF dir = "none" THEN dir' = "partial" /\ maker' = s ELSE UNCHANGED <<dir, maker>>
  /\ UNCHANGED <<shell, stage, system, history>>

(* A defect: no set -e.                                                    *)
FallenThrough(s) == Proceed(s, "launch") /\ UNCHANGED last

(* The copy is as complete as its source, or fails: a full disk, a path    *)
(* the host does not have, a directory removed under it.  set -e.          *)
Source == IF package = "appimage" THEN stage ELSE "whole"
Failed(s) == End(s, "failed")
Copied(s) ==
  /\ step[s] = "copying"
  /\ \/ /\ package # "user flatpak" /\ dir # "none"
        /\ dir' = IF maker = s THEN Source ELSE dir
        /\ Proceed(s, "launch") /\ UNCHANGED last
     \/ Failed(s) /\ UNCHANGED dir
  /\ UNCHANGED <<shell, stage, maker, system, overlap>>

(* nohup ... &: whatever becomes of the child, the script goes on.         *)
LaunchEngine(s) ==
  /\ step[s] = "launch" /\ Proceed(s, "look")
  /\ \/ dir # "none" /\ Launched("bundle", dir = "partial")
     \/ dir # "whole" /\ UNCHANGED engines
  /\ UNCHANGED <<shell, files, port, history>>

(* Twenty looks with pgrep; any process of that name will do.              *)
Look(s) ==
  /\ step[s] = "look"
  /\ End(s, IF Named # {} THEN "ok" ELSE "failed")
  /\ UNCHANGED <<shell, files, system, overlap>>

-----------------------------------------------------------------------------
Script(s) == StopUnit(s) \/ Pkill(s) \/ Remove(s) \/ Copy(s) \/ Copied(s) \/ LaunchEngine(s) \/ Look(s)
Prepare(s) == Press(s) \/ NetStart(s) \/ Locate(s) \/ Unstage(s) \/ Restage(s) \/ Prompt(s)

ShellNext ==
  \/ OpenShell \/ PollApi \/ Quit \/ AskApi
  \/ \E s \in Starts : Prepare(s) \/ Script(s)
  \/ \E e \in DOMAIN engines : Listen(e) \/ FinalizerDone(e) \/ Refuse(e) \/ StopOutside(e)
  \/ \E kind \in {"unit", "terminal"} : FromOutside(kind)

(* The thread of the poll is scheduled.                                    *)
ShellSpec == ShellInit /\ [][ShellNext]_shellVars /\ WF_shellVars(PollApi)

-----------------------------------------------------------------------------
(* The variables hold what the program may put in them; whoever has the    *)
(* port is a process.                                                      *)
ShellTypeOK ==
  /\ package \in Packages /\ window \in {"closed", "waiting", "dashboard"}
  /\ step \in [Starts -> {"none", "check", "net", "locate", "prompt"} \cup Staging \cup Rooted \cup Ended]
  /\ {stage, dir} \subseteq {"none", "partial", "whole"} /\ maker \in Starts \cup {"none"}
  /\ engines \in Seq([kind : {"bundle", "unit", "terminal", "service"}, shaky : BOOLEAN,
                      state : {"starting", "serving", "stopping", "gone"}, after : SUBSET DOMAIN engines])
  /\ port # 0 => Alive(port)
  /\ overlap \subseteq Starts /\ last \in Ended \cup {"none"}

(* "pressing Start always yields a fresh, working session" (main.rs:134),  *)
(* whatever was running before: when the last start reported success and   *)
(* no other ran at the same time, there is an engine that has not been     *)
(* told to stop, also after the old one has given up the port.             *)
Quiet == \A s \in Starts : ~ Touches(s)
FreshSession == ShellTypeOK /\ (Quiet /\ overlap = {} /\ last = "ok" => Running # {})

(* The window finds an engine whenever it comes: if one serves from some   *)
(* time on, the dashboard opens, however the automatic start has ended.    *)
WindowOpens == <>[](window # "closed" /\ port # 0) => <>(window = "dashboard")

=============================================================================
