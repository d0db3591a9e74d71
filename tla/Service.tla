------------------------------ MODULE Service ------------------------------
(***************************************************************************)
(* The managed service: `service install`, `start`, `stop` and `uninstall` *)
(* against systemd (service_linux.go) and the Windows service manager      *)
(* (service_windows.go), and the service process they control.             *)
(*                                                                         *)
(* A command is a sequence of steps outside the process, each of which may *)
(* fail; the command may be killed and the machine restarted between any   *)
(* two.  Commands follow one another without end and may overlap; what one *)
(* promises it promises as long as none has overlapped.                    *)
(***************************************************************************)
EXTENDS Naturals, FiniteSets

CONSTANTS
    Commands,   \* slots for commands that overlap
    Scopes      \* "system" and "user" services of systemd, "windows"

ASSUME ScopeAssumption == Scopes \subseteq {"system", "user", "windows"}

VARIABLES
    scope,      \* the kind of service; never changes
    booted,     \* systemd runs; never changes
    unit,       \* unit file or registration: "none", "present", "deleting" or another's
    enabled,    \* systemd starts the unit at boot
    loaded,     \* systemd knows the unit
    exe,        \* the installed executable: "none", "old" or the command's own, "new"
    stateDir,   \* "none", "made", or "owned" by the service's account
    source,     \* the Windows event source exists
    proc,       \* the service's state in its manager
    image,      \* the executable its process runs
    serving,    \* the process answers at its control endpoint
    ready,      \* it has answered since it was started
    op,         \* [Commands -> the operation]
    pc,         \* [Commands -> its next step]
    created,    \* [Commands -> what its install created, of "service" and "source"]
    result,     \* [Commands -> its outcome, until the next command begins]
    overlapped  \* some command ran beside another

files    == <<unit, enabled, loaded, exe, stateDir, source>>
process  == <<proc, image, serving, ready>>
fixed    == <<scope, booted>>
commands == <<op, pc, created, result, overlapped>>
vars == <<fixed, files, process, commands>>

Windows == scope = "windows"

Ops == {"install", "start", "stop", "uninstall"}

Labels ==
    {"idle", "account", "copy", "mkdir", "chown", "unit", "enable", "reload",
     "start", "await", "ready", "stop", "settle", "stopping", "disable", "remove",
     "open", "source", "provision", "replace", "finish", "delete", "deleted", "unsource"}

FlagsOK ==
    /\ booted \in BOOLEAN
    /\ enabled \in BOOLEAN
    /\ loaded \in BOOLEAN
    /\ source \in BOOLEAN
    /\ serving \in BOOLEAN
    /\ ready \in BOOLEAN
    /\ overlapped \in BOOLEAN

TypeOK ==
    /\ FlagsOK
    /\ scope \in Scopes
    /\ unit \in {"none", "present", "foreign", "deleting"}
    /\ {exe, image} \subseteq {"none", "old", "new"}
    /\ stateDir \in {"none", "made", "owned"}
    /\ proc \in {"stopped", "starting", "running", "frozen", "stopping"}
    /\ op \in [Commands -> Ops \cup {"none"}]
    /\ pc \in [Commands -> Labels]
    /\ created \in [Commands -> SUBSET {"service", "source"}]
    /\ result \in [Commands -> {"none", "ok", "error", "killed"}]

\* Before the first command: nothing, an older release, or another program's
\* service of the same name.
Init ==
    /\ scope \in Scopes
    /\ booted \in (IF scope = "system" THEN BOOLEAN ELSE {TRUE})
    /\ \E older \in BOOLEAN :
          /\ exe = IF older THEN "old" ELSE "none"
          /\ stateDir = IF older THEN "owned" ELSE "none"
          /\ unit \in IF older THEN {"present"}
                      ELSE IF Windows THEN {"none", "foreign"} ELSE {"none"}
          /\ enabled = (older /\ ~Windows)
          /\ loaded = (older /\ ~Windows /\ booted)
          /\ source = (older /\ Windows)
    /\ proc = "stopped"
    /\ image = "none"
    /\ serving = FALSE
    /\ ready = FALSE
    /\ op = [c \in Commands |-> "none"]
    /\ pc = [c \in Commands |-> "idle"]
    /\ created = [c \in Commands |-> {}]
    /\ result = [c \in Commands |-> "none"]
    /\ overlapped = FALSE

----------------------------------------------------------------------------
(* The service process, and its manager.                                   *)

\* External: the manager starts the process.  systemd takes it for active at once
\* (Type=simple).
Launched ==
    /\ proc' = IF Windows THEN "starting" ELSE "running"
    /\ image' = exe
    /\ serving' = FALSE
    /\ ready' = FALSE

Ended(state) ==
    /\ proc' = state
    /\ image' = "none"
    /\ serving' = FALSE
    /\ ready' = FALSE

\* External: systemd starts a failed host again.
Restarts ==
    /\ ~Windows
    /\ proc = "starting"
    /\ proc' = "running"
    /\ image' = exe
    /\ UNCHANGED <<fixed, files, serving, ready, commands>>

\* runHost: the control server answers.
HostServes ==
    /\ proc = IF Windows THEN "starting" ELSE "running"
    /\ image # "none"
    /\ ~serving
    /\ serving' = TRUE
    /\ ready' = TRUE
    /\ UNCHANGED <<fixed, files, proc, image, commands>>

\* Execute reports the service as running when its own endpoint has answered.
ReportsRunning ==
    /\ Windows
    /\ proc = "starting"
    /\ serving
    /\ proc' = "running"
    /\ UNCHANGED <<fixed, files, image, serving, ready, commands>>

\* The host ends with an error, or is not ready in time (Execute): systemd
\* restarts it (Restart=on-failure), the Windows service is stopped.
HostFails ==
    /\ proc \in {"starting", "running"}
    /\ Ended(IF Windows THEN "stopped" ELSE "starting")
    /\ UNCHANGED <<fixed, files, commands>>

\* External: the unit is frozen.
Freezes ==
    /\ ~Windows
    /\ proc = "running"
    /\ proc' = "frozen"
    /\ serving' = FALSE
    /\ UNCHANGED <<fixed, files, image, ready, commands>>

\* The host ends after a stop request: by itself, after Execute's 25 seconds, or
\* killed by systemd.
HostStops ==
    /\ proc = "stopping"
    /\ Ended("stopped")
    /\ UNCHANGED <<fixed, files, commands>>

\* Steps between which a Windows command holds a handle of the service.
Handles ==
    {"stop", "settle", "stopping", "source", "provision", "replace", "finish",
     "await", "delete"}

\* External: a deleted service goes with its last handle, when it has stopped.
Disappears ==
    /\ unit = "deleting"
    /\ proc = "stopped"
    /\ \A c \in Commands : pc[c] \notin Handles
    /\ unit' = "none"
    /\ UNCHANGED <<fixed, enabled, loaded, exe, stateDir, source, process, commands>>

\* The machine restarts: commands are killed, enabled services started.
Reboots ==
    /\ booted
    /\ loaded' = (~Windows /\ unit = "present")
    /\ unit' = IF unit = "deleting" THEN "none" ELSE unit
    /\ IF unit = "present" /\ (Windows \/ enabled) /\ exe # "none"
       THEN Launched ELSE Ended("stopped")
    /\ pc' = [c \in Commands |-> "idle"]
    /\ result' = [c \in Commands |-> IF pc[c] = "idle" THEN result[c] ELSE "killed"]
    /\ UNCHANGED <<fixed, enabled, exe, stateDir, source, op, created, overlapped>>

----------------------------------------------------------------------------
(* Steps of the commands.                                                  *)

Goto(c, label) == pc' = [pc EXCEPT ![c] = label]

Report(c, outcome) ==
    /\ Goto(c, "idle")
    /\ result' = [result EXCEPT ![c] = outcome]

Active(c) == pc[c] # "idle"

FirstStep(k) ==
    CASE k = "start" -> "start"
      [] k = "install" -> IF Windows THEN "open" ELSE IF scope = "system" THEN "account" ELSE "copy"
      [] OTHER -> IF Windows THEN "open" ELSE "stop"

\* What start and stop do to another program's service is outside the model.
Begin(c, k) ==
    /\ pc[c] = "idle"
    /\ unit = "foreign" => k \in {"install", "uninstall"}
    /\ op' = [d \in Commands |-> IF d = c THEN k ELSE IF Active(d) THEN op[d] ELSE "none"]
    /\ Goto(c, FirstStep(k))
    /\ created' = [d \in Commands |-> IF Active(d) THEN created[d] ELSE {}]
    /\ result' = [d \in Commands |-> "none"]
    /\ overlapped' = (overlapped \/ \E d \in Commands : Active(d))
    /\ UNCHANGED <<fixed, files, process>>

\* Step c from one label to the next; the caller says what else changes.
Step(c, from, to) ==
    /\ pc[c] = from
    /\ Goto(c, to)
    /\ UNCHANGED <<fixed, op, created, result, overlapped>>

\* Mutant: only the event source is taken back.
FailsWithoutDelete(c) ==
    /\ Active(c)
    /\ Report(c, "error")
    /\ source' = (source /\ "source" \notin created[c])
    /\ UNCHANGED <<fixed, unit, enabled, loaded, exe, stateDir, process, op, created, overlapped>>

\* A step fails or its deadline passes.  A Windows install takes back what it
\* created (the deferred functions of Install; that they succeed is assumed).
Fails(c) ==
    /\ Active(c)
    /\ Report(c, "error")
    /\ source' = (source /\ "source" \notin created[c])
    /\ unit' = IF "service" \in created[c] /\ unit = "present" THEN "deleting" ELSE unit
    /\ UNCHANGED <<fixed, enabled, loaded, exe, stateDir, process, op, created, overlapped>>

Killed(c) ==
    /\ Active(c)
    /\ Report(c, "killed")
    /\ UNCHANGED <<fixed, files, process, op, created, overlapped>>

----------------------------------------------------------------------------
(* systemd: install.                                                       *)

CreateAccount(c) == Step(c, "account", "copy") /\ UNCHANGED <<files, process>>

\* Mutant: an executable that is there is taken for the command's own.
CopyExecutableIfMissing(c) ==
    /\ Step(c, "copy", "mkdir")
    /\ exe' = IF exe = "none" THEN "new" ELSE exe
    /\ UNCHANGED <<unit, enabled, loaded, stateDir, source, process>>

\* Another release's executable does not match, and is replaced.
CopyExecutableIfNeeded(c) ==
    /\ Step(c, "copy", "mkdir")
    /\ exe' = "new"
    /\ UNCHANGED <<unit, enabled, loaded, stateDir, source, process>>

\* The user's own directory needs no chown.
MakeState(c) ==
    /\ Step(c, "mkdir", IF scope = "system" THEN "chown" ELSE "unit")
    /\ stateDir' = IF scope = "user" THEN "owned" ELSE IF stateDir = "none" THEN "made" ELSE stateDir
    /\ UNCHANGED <<unit, enabled, loaded, exe, source, process>>

ChownState(c) ==
    /\ Step(c, "chown", "unit")
    /\ stateDir' = "owned"
    /\ UNCHANGED <<unit, enabled, loaded, exe, source, process>>

WriteUnit(c) ==
    /\ Step(c, "unit", "enable")
    /\ unit' = "present"
    /\ UNCHANGED <<enabled, loaded, exe, stateDir, source, process>>

EnableUnit(c) ==
    /\ Step(c, "enable", "reload")
    /\ enabled' = TRUE
    /\ UNCHANGED <<unit, loaded, exe, stateDir, source, process>>

\* daemon-reload ends install and uninstall; install goes without a booted systemd.
ReloadSystemd(c) ==
    /\ pc[c] = "reload"
    /\ booted \/ op[c] = "install"
    /\ Report(c, "ok")
    /\ loaded' = (booted /\ unit = "present")
    /\ UNCHANGED <<fixed, unit, enabled, exe, stateDir, source, process, op, created, overlapped>>

----------------------------------------------------------------------------
(* systemd: start, stop and uninstall.                                     *)

\* Mutant: what systemd shows of the unit is not asked for.
StatusOfFile == IF unit = "none" THEN "not-installed" ELSE "stopped"

\* Status: the unit file first, then what systemd shows of the unit.
Status ==
    IF unit = "none" THEN "not-installed" ELSE IF ~loaded THEN "stopped" ELSE proc

\* systemctl start or thaw; a running or a starting unit is only waited for.
StartLinux(c) ==
    /\ ~Windows /\ booted
    /\ Status # "not-installed"
    /\ Step(c, "start", IF Status = "running" THEN "ready" ELSE "await")
    /\ \/ Status \in {"running", "starting"} /\ UNCHANGED <<loaded, process>>
       \/ Status = "frozen" /\ proc' = "running" /\ UNCHANGED <<loaded, image, serving, ready>>
       \/ Status = "stopped" /\ Launched /\ loaded' = TRUE
    /\ UNCHANGED <<unit, enabled, exe, stateDir, source>>

\* Mutant: an active unit is taken for a ready one.
AwaitActive(c) ==
    /\ ~Windows
    /\ pc[c] = "await"
    /\ \/ Status = "running" /\ Report(c, "ok")
       \/ Status = "stopped" /\ Report(c, "error")
    /\ UNCHANGED <<fixed, files, process, op, created, overlapped>>

\* waitForState: no deadline; a unit that has stopped ends it.
AwaitLinux(c) ==
    /\ ~Windows
    /\ pc[c] = "await"
    /\ \/ Status = "running" /\ Goto(c, "ready") /\ UNCHANGED result
       \/ Status = "stopped" /\ Report(c, "error")
    /\ UNCHANGED <<fixed, files, process, op, created, overlapped>>

\* linuxHostReady.
SeesReady(c) ==
    /\ pc[c] = "ready"
    /\ serving
    /\ Report(c, "ok")
    /\ UNCHANGED <<fixed, files, process, op, created, overlapped>>

\* Stop, and the first half of Uninstall: systemctl stop unless it has stopped.
StopLinux(c) ==
    /\ ~Windows
    /\ pc[c] = "stop"
    /\ booted \/ Status = "not-installed"
    /\ IF Status \in {"not-installed", "stopped"}
       THEN /\ IF op[c] = "stop" THEN Report(c, "ok")
               ELSE Goto(c, IF unit = "none" THEN "reload" ELSE "disable") /\ UNCHANGED result
            /\ UNCHANGED proc
       ELSE /\ Goto(c, "stopping")
            /\ proc' = "stopping"
            /\ UNCHANGED result
    /\ UNCHANGED <<fixed, files, image, serving, ready, op, created, overlapped>>

DisableUnit(c) ==
    /\ Step(c, "disable", "remove")
    /\ enabled' = FALSE
    /\ UNCHANGED <<unit, loaded, exe, stateDir, source, process>>

RemoveUnit(c) ==
    /\ Step(c, "remove", "reload")
    /\ unit' = "none"
    /\ UNCHANGED <<enabled, loaded, exe, stateDir, source, process>>

\* systemctl stop returns, or waitWindowsServiceState sees the service stopped.
Stopped(c) ==
    /\ pc[c] = "stopping"
    /\ proc = "stopped"
    /\ \/ op[c] = "stop" /\ Report(c, "ok")
       \/ op[c] = "install" /\ Goto(c, "source") /\ UNCHANGED result
       \/ /\ op[c] = "uninstall"
          /\ Goto(c, IF Windows THEN "delete" ELSE "disable")
          /\ UNCHANGED result
    /\ UNCHANGED <<fixed, files, process, op, created, overlapped>>

----------------------------------------------------------------------------
(* Windows: install.                                                       *)

\* Install opens or creates the service; one with another configuration is left
\* alone, and one with another executable is stopped first.
OpenToInstall(c) ==
    /\ pc[c] = "open"
    /\ op[c] = "install"
    /\ \/ /\ unit = "present"
          /\ Goto(c, IF exe = "new" THEN "source" ELSE "stop")
          /\ UNCHANGED <<unit, created>>
       \/ /\ unit = "none"
          /\ unit' = "present"
          /\ created' = [created EXCEPT ![c] = {"service"}]
          /\ Goto(c, "source")
    /\ UNCHANGED <<fixed, enabled, loaded, exe, stateDir, source, process, op, result, overlapped>>

EnsureEventSource(c) ==
    /\ pc[c] = "source"
    /\ Goto(c, "provision")
    /\ source' = TRUE
    /\ created' = [created EXCEPT ![c] = IF source THEN @ ELSE @ \cup {"source"}]
    /\ UNCHANGED <<fixed, unit, enabled, loaded, exe, stateDir, process, op, result, overlapped>>

ProvisionState(c) ==
    /\ Step(c, "provision", "replace")
    /\ stateDir' = "owned"
    /\ UNCHANGED <<unit, enabled, loaded, exe, source, process>>

\* Windows does not replace the executable of a running process.
InstallExecutable(c) ==
    /\ Step(c, "replace", "finish")
    /\ exe = "new" \/ image = "none"
    /\ exe' = "new"
    /\ UNCHANGED <<unit, enabled, loaded, stateDir, source, process>>

\* Install ends with the error of its context, if that has ended.
FinishInstall(c) ==
    /\ pc[c] = "finish"
    /\ Report(c, "ok")
    /\ UNCHANGED <<fixed, files, process, op, created, overlapped>>

----------------------------------------------------------------------------
(* Windows: start, stop and uninstall.                                     *)

\* startWindowsService; a stopping service is waited for.
StartWindows(c) ==
    /\ Windows
    /\ pc[c] = "start"
    /\ unit = "present"
    /\ \/ proc = "running" /\ Report(c, "ok") /\ UNCHANGED process
       \/ proc = "starting" /\ Goto(c, "await") /\ UNCHANGED <<result, process>>
       \/ proc = "stopped" /\ exe # "none" /\ Goto(c, "await") /\ Launched /\ UNCHANGED result
    /\ UNCHANGED <<fixed, files, op, created, overlapped>>

\* waitWindowsServiceState.
AwaitWindows(c) ==
    /\ Windows
    /\ pc[c] = "await"
    /\ proc \in {"running", "stopped"}
    /\ Report(c, IF proc = "running" THEN "ok" ELSE "error")
    /\ UNCHANGED <<fixed, files, process, op, created, overlapped>>

\* Stop and Uninstall open the service; there may be none.
OpenToStop(c) ==
    /\ pc[c] = "open"
    /\ \/ /\ op[c] = "stop"
          /\ IF unit = "present" THEN Goto(c, "stop") /\ UNCHANGED result ELSE Report(c, "ok")
       \/ /\ op[c] = "uninstall"
          /\ unit # "foreign"
          /\ Goto(c, IF unit = "present" THEN "stop" ELSE "unsource")
          /\ UNCHANGED result
    /\ UNCHANGED <<fixed, files, process, op, created, overlapped>>

\* stopWindowsService: a starting service accepts no stop before it runs.
StopWindows(c) ==
    /\ Windows
    /\ \/ /\ pc[c] = "stop"
          /\ Goto(c, IF proc = "starting" THEN "settle" ELSE "stopping")
          /\ proc' = IF proc = "running" THEN "stopping" ELSE proc
       \/ /\ pc[c] = "settle"
          /\ proc = "running"
          /\ Goto(c, "stopping")
          /\ proc' = "stopping"
    /\ UNCHANGED <<fixed, files, image, serving, ready, op, created, result, overlapped>>

DeleteService(c) ==
    /\ Step(c, "delete", "deleted")
    /\ unit' = IF unit = "present" THEN "deleting" ELSE unit
    /\ UNCHANGED <<enabled, loaded, exe, stateDir, source, process>>

\* waitWindowsServiceDeleted.
SeesDeleted(c) ==
    /\ Step(c, "deleted", "unsource")
    /\ unit = "none"
    /\ UNCHANGED <<files, process>>

RemoveEventSource(c) ==
    /\ pc[c] = "unsource"
    /\ Report(c, "ok")
    /\ source' = FALSE
    /\ UNCHANGED <<fixed, unit, enabled, loaded, exe, stateDir, process, op, created, overlapped>>

----------------------------------------------------------------------------

CommandStep(c) ==
    \/ CreateAccount(c)
    \/ CopyExecutableIfNeeded(c)
    \/ MakeState(c)
    \/ ChownState(c)
    \/ WriteUnit(c)
    \/ EnableUnit(c)
    \/ ReloadSystemd(c)
    \/ StartLinux(c)
    \/ AwaitLinux(c)
    \/ SeesReady(c)
    \/ StopLinux(c)
    \/ DisableUnit(c)
    \/ RemoveUnit(c)
    \/ Stopped(c)
    \/ OpenToInstall(c)
    \/ EnsureEventSource(c)
    \/ ProvisionState(c)
    \/ InstallExecutable(c)
    \/ FinishInstall(c)
    \/ StartWindows(c)
    \/ AwaitWindows(c)
    \/ OpenToStop(c)
    \/ StopWindows(c)
    \/ DeleteService(c)
    \/ SeesDeleted(c)
    \/ RemoveEventSource(c)
    \/ Fails(c)

ProcessStep ==
    \/ Restarts
    \/ HostServes
    \/ ReportsRunning
    \/ HostFails
    \/ Freezes
    \/ HostStops
    \/ Disappears

Next ==
    \/ ProcessStep
    \/ Reboots
    \/ \E c \in Commands :
          \/ \E k \in Ops : Begin(c, k)
          \/ CommandStep(c)
          \/ Killed(c)

Spec == Init /\ [][Next]_vars

----------------------------------------------------------------------------
(* Properties.                                                             *)

\* An install that succeeded left everything in place, whatever an
\* earlier release, an interrupted install or an interrupted uninstall had left
\* (Install); no Windows process of the older executable is left either.
InstallComplete ==
    \A c \in Commands :
        op[c] = "install" /\ result[c] = "ok" /\ ~overlapped =>
            /\ unit = "present"
            /\ exe = "new"
            /\ stateDir = "owned"
            /\ Windows => source /\ image \in {"none", "new"}
            /\ ~Windows => enabled /\ (booted => loaded)

\* A Windows install that failed took back the service and the event
\* source it had created, however far it got (the deferred functions of Install).
InstallUndone ==
    \A c \in Commands :
        op[c] = "install" /\ result[c] = "error" /\ ~overlapped =>
            /\ "service" \in created[c] => unit \in {"deleting", "none"}
            /\ "source" \in created[c] => ~source

\* An uninstall that succeeded left nothing that runs, and nothing
\* that would run after a restart of the machine, also when it finished what an
\* interrupted uninstall had begun (Uninstall).
UninstallComplete ==
    \A c \in Commands :
        op[c] = "uninstall" /\ result[c] = "ok" /\ ~overlapped =>
            /\ unit \in {"none", "deleting"}
            /\ ~enabled
            /\ ~loaded
            /\ ~source
            /\ proc = "stopped"

\* A start reports success only for a service process that has answered at its
\* control endpoint (waitForReady; Execute before it reports Running).
StartServed ==
    [][\A c \in Commands :
          op[c] = "start" /\ Active(c) /\ result'[c] = "ok" => ready]_vars

\* The steps of each operation.
StepsOf(k) ==
    CASE k = "install" -> IF Windows
                          THEN {"open", "stop", "settle", "stopping", "source", "provision",
                                "replace", "finish"}
                          ELSE {"account", "copy", "mkdir", "chown", "unit", "enable", "reload"}
      [] k = "start" -> {"start", "await", "ready"}
      [] k = "stop" -> {"open", "stop", "settle", "stopping"}
      [] k = "uninstall" -> IF Windows
                            THEN {"open", "stop", "settle", "stopping", "delete", "deleted",
                                  "unsource"}
                            ELSE {"stop", "stopping", "disable", "remove", "reload"}

\* A command is at a step of its operation and has no outcome before its last; only
\* a Windows install creates anything.
OnCourse(c) ==
    /\ Active(c) => op[c] \in Ops /\ pc[c] \in StepsOf(op[c]) /\ result[c] = "none"
    /\ op[c] # "install" \/ ~Windows => created[c] = {}

\* Enabling and loading are systemd's; event sources, other programs' services and
\* pending deletions are of Windows.
ManagerCoherent ==
    /\ Windows => booted /\ ~enabled /\ ~loaded
    /\ ~Windows => ~source /\ unit \in {"none", "present"}
    /\ ~booted => proc = "stopped"

\* A process that serves has answered, a Windows service runs only once it has, and
\* Windows keeps the executable of a running process.
ProcessCoherent ==
    /\ serving => ready
    /\ Windows /\ proc = "running" => ready
    /\ Windows /\ exe = "new" => image # "old"

\* Until commands overlap, one runs at a time, and none has an outcome while it does.
OneAtATime ==
    ~overlapped => \A c, d \in Commands : Active(c) => result[d] = "none" /\ (Active(d) => c = d)

\* Until commands overlap, only an installed service runs, one that its manager knows.
OnlyInstalledRuns ==
    ~overlapped =>
        /\ unit # "present" => proc = "stopped" /\ ~enabled
        /\ ~Windows /\ ~loaded => proc = "stopped"

\* How far an install has come at each of its steps.
InstallProgress(c) ==
    /\ pc[c] \in {"mkdir", "chown", "unit", "enable", "reload", "finish"} => exe = "new"
    /\ pc[c] \in {"unit", "enable", "reload", "replace", "finish"} => stateDir = "owned"
    /\ pc[c] \in {"enable", "reload", "stop", "settle", "stopping", "source", "provision",
                  "replace", "finish"} => unit = "present"
    /\ pc[c] = "reload" => enabled
    /\ pc[c] \in {"provision", "replace", "finish"} => source
    /\ "service" \in created[c] =>
            pc[c] \in {"source", "provision", "replace", "finish"} /\ proc = "stopped"

\* How far an uninstall has come.
UninstallProgress(c) ==
    /\ pc[c] # "open" => unit # "foreign"
    /\ pc[c] \in {"disable", "remove", "delete", "deleted"} => proc = "stopped"
    /\ pc[c] = "remove" => ~enabled
    /\ pc[c] = "reload" => unit = "none"
    /\ pc[c] \in {"deleted", "unsource"} => unit \in {"none", "deleting"}

InProgress ==
    ~overlapped =>
        \A c \in Commands :
            /\ Active(c) /\ op[c] = "install" => InstallProgress(c)
            /\ Active(c) /\ op[c] = "uninstall" => UninstallProgress(c)

\* In every state the service, its files and its process are in one of the states
\* the managers know, each command is as far as its step says, and a failed Windows
\* install is undone (Install, Uninstall).
ServiceInvariant ==
    /\ TypeOK
    /\ \A c \in Commands : OnCourse(c)
    /\ ManagerCoherent
    /\ ProcessCoherent
    /\ OneAtATime
    /\ OnlyInstalledRuns
    /\ InProgress
    /\ InstallComplete
    /\ InstallUndone
    /\ UninstallComplete
============================================================================
