------------------------------ MODULE Control ------------------------------
(***************************************************************************)
(* Commands, the process lock and the local control server.  A command asks*)
(* the serving host through the endpoint control.json names, and opens the *)
(* store itself when there is none (main.go controlFirst, enrollHost).     *)
(* Enrollment runs in whichever process holds the store (enroll.go), and   *)
(* wakes the host that waits for credentials (local.go, host.go).          *)
(*                                                                         *)
(* The host and the commands are separate processes: each may be killed at *)
(* any step, and calls between them may fail at any time.                  *)
(***************************************************************************)
EXTENDS Naturals, FiniteSets

CONSTANTS
    Kinds,      \* [Commands -> the kinds of command it may be]
    Commands,   \* command invocations; each enrollment gets the identity of its command
    EnrollsAt,  \* first steps of enroll: "status", or "enroll" with --state-dir
    Retries,    \* rounds of controlFirst's three-second retry loop
    Caller,     \* the user who runs the commands
    Service,    \* the user the serving host runs as
    Host,       \* the serving process, as a lock owner
    None

\* Queries, changes, changes with an artifact file, and enrollment.
Kind == {"read", "write", "upload", "enroll"}

ASSUME CommandAssumption == None \notin Commands /\ Host \notin Commands \cup {None}
ASSUME KindAssumption == Kinds \in [Commands -> SUBSET Kind] /\ None \notin Kind
ASSUME EntryAssumption == EnrollsAt \subseteq {"status", "enroll"}
ASSUME RetryAssumption == Retries \in Nat
ASSUME UserAssumption == None \notin {Caller, Service}

VARIABLES
    wanted,     \* the service manager keeps the host running
    phase,      \* the host process: "down", "opened", "serving" or "stopping"
    mem,        \* the enrolled identity in the host's memory
    remote,     \* serveRemote: "reading" credentials, finding none, "blocked", "configured"
    ready,      \* the buffered credentialsReady signal
    lock,       \* the process that holds .lock
    descriptor, \* whose nonce control.json holds: the running server's or an older one's
    owner,      \* the user who owns .lock and host.json
    identity,   \* the enrolled identity in host.json
    kind,       \* [Commands -> what the command does]
    pc,         \* [Commands -> the command's next step]
    to,         \* [Commands -> the control server it calls]
    tries,      \* [Commands -> rounds it took of the retry loop it is in]
    result,     \* [Commands -> what it reported to its user]
    handler,    \* [Commands -> its request in the control server]
    stage,      \* [Commands -> its exchange with Airlock, and Airlock's decision]
    whole,      \* commands whose artifact file is whole where it is installed
    applied     \* [Commands -> how often its change was made]

hostVars == <<phase, mem, remote, ready>>
fileVars == <<lock, descriptor, owner, identity>>
cmdVars  == <<kind, pc, to, tries, result>>
callVars == <<handler, stage, whole, applied>>
vars == <<wanted, hostVars, fileVars, cmdVars, callVars>>

FlagsOK == {wanted, ready} \subseteq BOOLEAN

TypeOK ==
    /\ FlagsOK
    /\ phase \in {"down", "opened", "serving", "stopping"}
    /\ {mem, identity} \subseteq Commands \cup {None}
    /\ remote \in {"reading", "none", "blocked", "configured"}
    /\ lock \in Commands \cup {Host, None}
    /\ descriptor \in {"own", "old", None}
    /\ owner \in [{"lock", "state"} -> {Caller, Service, None}]
    /\ kind \in [Commands -> Kind \cup {None}]
    /\ pc \in [Commands -> {"idle", "status", "check", "checking", "start", "ready", "enroll",
                            "resolve", "call", "open", "direct", "closing", "done"}]
    /\ to \in [Commands -> {"own", "old", None}]
    /\ tries \in [Commands -> 0..Retries]
    /\ result \in [Commands -> {"none", "ok", "error"}]
    /\ handler \in [Commands -> {"none", "accepted", "ok", "error", "lost"}]
    /\ stage \in [Commands -> {"none", "ask", "pending", "approved"}]
    /\ whole \subseteq Commands
    /\ applied \in [Commands -> 0..2]

Init ==
    /\ wanted = FALSE
    /\ phase = "down"
    /\ mem = None
    /\ remote = "reading"
    /\ ready = FALSE
    /\ lock = None
    /\ descriptor = None
    /\ owner = [f \in {"lock", "state"} |-> None]
    /\ identity = None
    /\ kind = [c \in Commands |-> None]
    /\ pc = [c \in Commands |-> "idle"]
    /\ to = [c \in Commands |-> None]
    /\ tries = [c \in Commands |-> 0]
    /\ result = [c \in Commands |-> "none"]
    /\ handler = [c \in Commands |-> "none"]
    /\ stage = [c \in Commands |-> "none"]
    /\ whole = {}
    /\ applied = [c \in Commands |-> 0]

----------------------------------------------------------------------------
(* The store.                                                              *)

\* OpenStore by user u: .lock and host.json are created where they are missing.
CreatedBy(u) == [f \in {"lock", "state"} |-> IF owner[f] = None THEN u ELSE owner[f]]

\* Another user's files have mode 0600; root opens them all the same, and the caller
\* is root or the user the service runs as.
Opens(u) == u = Caller \/ \A f \in {"lock", "state"} : owner[f] \in {u, None}

\* A save replaces host.json by a file of the saving user (atomicWrite).
SavedBy(u) == [owner EXCEPT !["state"] = u]

Goto(c, label) == pc' = [pc EXCEPT ![c] = label]

Report(c, outcome) ==
    /\ Goto(c, "done")
    /\ result' = [result EXCEPT ![c] = outcome]

\* The local operation behind command c.  One that fails in its save may have
\* replaced host.json.
Carried(c, outcome, u) ==
    \/ /\ kind[c] # "read"
       /\ applied' = [applied EXCEPT ![c] = @ + 1]
       /\ owner' = SavedBy(u)
    \/ /\ kind[c] = "read" \/ outcome = "error"
       /\ UNCHANGED <<applied, owner>>

\* Nobody waits for the answer to a call that was given up.
Answer(c, outcome) == IF pc[c] = "call" THEN outcome ELSE "none"

----------------------------------------------------------------------------
(* The serving host.                                                       *)

\* Mutant: a host that finds a control.json takes it for another host's.
HostOpensAlone ==
    /\ wanted
    /\ phase = "down"
    /\ lock = None
    /\ descriptor = None
    /\ Opens(Service)
    /\ phase' = "opened"
    /\ lock' = Host
    /\ owner' = CreatedBy(Service)
    /\ mem' = identity
    /\ UNCHANGED <<wanted, remote, ready, descriptor, identity, cmdVars, callVars>>

\* runHost, load; a host that cannot open the store exits, and is started again.
HostOpens ==
    /\ wanted
    /\ phase = "down"
    /\ lock = None
    /\ Opens(Service)
    /\ phase' = "opened"
    /\ lock' = Host
    /\ owner' = CreatedBy(Service)
    /\ mem' = identity
    /\ UNCHANGED <<wanted, remote, ready, descriptor, identity, cmdVars, callVars>>

Aged(server) == IF server = "own" THEN "old" ELSE server

\* The lock, the memory and the handlers of the host end with its process.
ProcessEnds ==
    /\ phase' = "down"
    /\ mem' = None
    /\ remote' = "reading"
    /\ ready' = FALSE
    /\ lock' = None
    /\ handler' = [c \in Commands |-> IF handler[c] # "accepted" THEN handler[c]
                                     ELSE Answer(c, "lost")]
    /\ stage' = [c \in Commands |-> IF handler[c] = "accepted" THEN "none" ELSE stage[c]]
    /\ descriptor' = Aged(descriptor)
    /\ to' = [c \in Commands |-> Aged(to[c])]

\* NewLocalControlServer: listen, then publish a fresh nonce in control.json.
HostListens ==
    /\ phase = "opened"
    /\ phase' = "serving"
    /\ descriptor' = "own"
    /\ UNCHANGED <<wanted, mem, remote, ready, lock, owner, identity, cmdVars, callVars>>

\* The port is taken or control.json cannot be written.
HostCannotListen ==
    /\ phase = "opened"
    /\ ProcessEnds
    /\ UNCHANGED <<wanted, owner, identity, kind, pc, tries, result, whole, applied>>

\* waitForCredentials: read the store, then wait for the signal.
ReadsCredentials ==
    /\ phase = "serving"
    /\ remote = "reading"
    /\ remote' = IF mem # None THEN "configured" ELSE "none"
    /\ UNCHANGED <<wanted, phase, mem, ready, fileVars, cmdVars, callVars>>

Blocks ==
    /\ phase = "serving"
    /\ remote = "none"
    /\ remote' = "blocked"
    /\ UNCHANGED <<wanted, phase, mem, ready, fileVars, cmdVars, callVars>>

Wakes ==
    /\ phase = "serving"
    /\ remote = "blocked"
    /\ ready
    /\ ready' = FALSE
    /\ remote' = "reading"
    /\ UNCHANGED <<wanted, phase, mem, fileVars, cmdVars, callVars>>

\* cleanupDescriptor: only a descriptor of its own.
CleanedDescriptor == IF descriptor = "own" THEN None ELSE descriptor

\* The service is stopped, or serveRemote or the control server fails: no call is
\* accepted any more, and those in progress get ten seconds.
HostStops ==
    /\ phase = "serving"
    /\ phase' = "stopping"
    /\ descriptor' = CleanedDescriptor
    /\ wanted' \in {wanted, FALSE}
    /\ UNCHANGED <<mem, remote, ready, lock, owner, identity, cmdVars, callVars>>

\* Store.Close and the exit of the process.
HostExits ==
    /\ phase = "stopping"
    /\ ProcessEnds
    /\ UNCHANGED <<wanted, owner, identity, kind, pc, tries, result, whole, applied>>

\* control.json stays behind.
HostKilled ==
    /\ phase # "down"
    /\ ProcessEnds
    /\ UNCHANGED <<wanted, owner, identity, kind, pc, tries, result, whole, applied>>

\* External: the service is started or stopped by hand.
ServiceStarted ==
    /\ ~wanted
    /\ wanted' = TRUE
    /\ UNCHANGED <<hostVars, fileVars, cmdVars, callVars>>

ServiceStopped ==
    /\ wanted
    /\ phase = "down"
    /\ wanted' = FALSE
    /\ UNCHANGED <<hostVars, fileVars, cmdVars, callVars>>

----------------------------------------------------------------------------
(* Commands: enrollManagedService, enrollHost and controlFirst.            *)

\* enroll looks at the managed service first, or is given a --state-dir.
Begin(c, k) ==
    /\ pc[c] = "idle"
    /\ kind' = [kind EXCEPT ![c] = k]
    /\ \E label \in (IF k = "enroll" THEN EnrollsAt ELSE {"resolve"}) : Goto(c, label)
    /\ UNCHANGED <<wanted, hostVars, fileVars, to, tries, result, callVars>>

\* A running service is enrolled as it is; a stopped one is checked and started.
AsksStatus(c) ==
    /\ pc[c] = "status"
    /\ Goto(c, IF ~wanted THEN "check" ELSE IF phase = "down" THEN "start" ELSE "enroll")
    /\ UNCHANGED <<wanted, hostVars, fileVars, kind, to, tries, result, callVars>>

\* requireUnenrolledState opens the store as the caller, and closes it.
OpensToCheck(c) ==
    /\ pc[c] = "check"
    /\ IF lock = None
       THEN /\ lock' = c
            /\ owner' = CreatedBy(Caller)
            /\ Goto(c, "checking")
            /\ UNCHANGED result
       ELSE Report(c, "error") /\ UNCHANGED <<lock, owner>>
    /\ UNCHANGED <<wanted, hostVars, descriptor, identity, kind, to, tries, callVars>>

ChecksUnenrolled(c) ==
    /\ pc[c] = "checking"
    /\ lock' = None
    /\ IF identity = None
       THEN Goto(c, "start") /\ UNCHANGED result
       ELSE Report(c, "error")
    /\ UNCHANGED <<wanted, hostVars, descriptor, owner, identity, kind, to, tries, callVars>>

\* manager.Start, which then waits for an answer of the control server.
StartsService(c) ==
    /\ pc[c] = "start"
    /\ wanted' = TRUE
    /\ Goto(c, "ready")
    /\ UNCHANGED <<hostVars, fileVars, kind, to, tries, result, callVars>>

SeesReady(c) ==
    /\ pc[c] = "ready"
    /\ phase = "serving"
    /\ descriptor = "own"
    /\ Goto(c, "enroll")
    /\ UNCHANGED <<wanted, hostVars, fileVars, kind, to, tries, result, callVars>>

NotReady(c) ==
    /\ pc[c] = "ready"
    /\ Report(c, "error")
    /\ UNCHANGED <<wanted, hostVars, fileVars, kind, to, tries, callVars>>

\* enrollHost: a store nobody serves is enrolled directly, under the lock.
EnrollOpens(c) ==
    /\ pc[c] = "enroll"
    /\ IF lock # None
       THEN Goto(c, "resolve") /\ UNCHANGED <<lock, owner, result, stage>>
       ELSE /\ lock' = c
            /\ owner' = CreatedBy(Caller)
            /\ IF identity = None
               THEN /\ Goto(c, "direct")
                    /\ stage' = [stage EXCEPT ![c] = "ask"]
                    /\ UNCHANGED result
               ELSE /\ Goto(c, "closing")
                    /\ result' = [result EXCEPT ![c] = "error"]
                    /\ UNCHANGED stage
    /\ UNCHANGED <<wanted, hostVars, descriptor, identity, kind, to, tries, handler, whole, applied>>

\* NewLocalControlClient.
Resolves(c) ==
    /\ pc[c] = "resolve"
    /\ to' = [to EXCEPT ![c] = descriptor]
    /\ Goto(c, IF descriptor = None THEN "open" ELSE "call")
    /\ UNCHANGED <<wanted, hostVars, fileVars, kind, tries, result, callVars>>

\* Mutant: every command goes on to the store after a transport error.
CallFailsAnyKind(c) ==
    /\ pc[c] = "call"
    /\ Goto(c, "open")
    /\ to' = [to EXCEPT ![c] = None]
    /\ handler' = [handler EXCEPT ![c] = IF @ = "accepted" /\ kind[c] # "read" THEN @ ELSE "none"]
    /\ UNCHANGED <<wanted, hostVars, fileVars, kind, tries, result, stage, whole, applied>>

\* A transport error: nothing is known of the call.  Only a command that changes
\* nothing goes on to the store and the retry loop.
CallFails(c) ==
    /\ pc[c] = "call"
    /\ IF kind[c] = "read"
       THEN Goto(c, "open") /\ UNCHANGED <<result, tries>>
       ELSE Report(c, "error") /\ tries' = [tries EXCEPT ![c] = 0]
    /\ to' = [to EXCEPT ![c] = None]
    /\ handler' = [handler EXCEPT ![c] = IF @ = "accepted" /\ kind[c] # "read" THEN @ ELSE "none"]
    /\ UNCHANGED <<wanted, hostVars, fileVars, kind, stage, whole, applied>>

\* The answer of the server, or its refusal of another server's token.
Answered(c) ==
    /\ pc[c] = "call"
    /\ \/ handler[c] \in {"ok", "error"} /\ Report(c, handler[c])
       \/ handler[c] = "none" /\ phase = "serving" /\ to[c] = "old" /\ Report(c, "error")
    /\ to' = [to EXCEPT ![c] = None]
    /\ handler' = [handler EXCEPT ![c] = "none"]
    /\ tries' = [tries EXCEPT ![c] = 0]
    /\ UNCHANGED <<wanted, hostVars, fileVars, kind, stage, whole, applied>>

\* do, upload: one request, one answer.
CallReturns(c) == kind[c] # "enroll" /\ Answered(c)

\* The events of an enrollment end with its completion or its error.
EnrollReturns(c) == kind[c] = "enroll" /\ Answered(c)

\* OpenStore as the second choice.  An enrollment that gets here gives up.
OpensDirectly(c) ==
    /\ pc[c] = "open"
    /\ lock = None
    /\ lock' = c
    /\ owner' = CreatedBy(Caller)
    /\ IF kind[c] = "enroll"
       THEN Goto(c, "closing") /\ result' = [result EXCEPT ![c] = "error"]
       ELSE Goto(c, "direct") /\ UNCHANGED result
    /\ tries' = [tries EXCEPT ![c] = 0]
    /\ UNCHANGED <<wanted, hostVars, descriptor, identity, kind, to, callVars>>

\* Mutant: the loop has no deadline.
FindsLockedForever(c) ==
    /\ pc[c] = "open"
    /\ lock # None
    /\ Goto(c, "resolve")
    /\ UNCHANGED <<wanted, hostVars, fileVars, kind, to, tries, result, callVars>>

\* The store is locked: the loop tries both ways again until its deadline.
FindsLocked(c) ==
    /\ pc[c] = "open"
    /\ lock # None
    /\ IF tries[c] < Retries
       THEN /\ tries' = [tries EXCEPT ![c] = @ + 1]
            /\ Goto(c, "resolve")
            /\ UNCHANGED result
       ELSE Report(c, "error") /\ tries' = [tries EXCEPT ![c] = 0]
    /\ UNCHANGED <<wanted, hostVars, fileVars, kind, to, callVars>>

\* runDirect of a command that is not an enrollment.
RunsDirectly(c, outcome) ==
    /\ pc[c] = "direct"
    /\ kind[c] # "enroll"
    /\ Carried(c, outcome, Caller)
    /\ whole' = whole \cup {c}
    /\ Goto(c, "closing")
    /\ result' = [result EXCEPT ![c] = outcome]
    /\ UNCHANGED <<wanted, hostVars, lock, descriptor, identity, kind, to, tries, handler, stage>>

\* upload: the metadata and the whole file.
SendsUpload(c) ==
    /\ pc[c] = "call"
    /\ kind[c] = "upload"
    /\ handler[c] = "accepted"
    /\ whole' = whole \cup {c}
    /\ UNCHANGED <<wanted, hostVars, fileVars, cmdVars, handler, stage, applied>>

\* Store.Close.
Closes(c) ==
    /\ pc[c] = "closing"
    /\ lock' = None
    /\ Goto(c, "done")
    /\ UNCHANGED <<wanted, hostVars, descriptor, owner, identity, kind, to, tries, result, callVars>>

\* The command is interrupted or killed while it waits or holds the lock: its lock
\* goes with it, its call does not.
Interrupted(c) ==
    /\ pc[c] \in {"checking", "ready", "call", "direct", "closing"}
    /\ Report(c, IF pc[c] = "closing" THEN result[c] ELSE "error")
    /\ lock' = IF lock = c THEN None ELSE lock
    /\ stage' = [stage EXCEPT ![c] = IF pc[c] = "direct" THEN "none" ELSE @]
    /\ to' = [to EXCEPT ![c] = None]
    /\ handler' = [handler EXCEPT ![c] = IF @ = "accepted" THEN @ ELSE "none"]
    /\ tries' = [tries EXCEPT ![c] = 0]
    /\ UNCHANGED <<wanted, hostVars, descriptor, owner, identity, kind, whole, applied>>

----------------------------------------------------------------------------
(* The control server's handlers.                                          *)

\* The server that wrote the descriptor accepts its token.
Accepts(c) ==
    /\ pc[c] = "call"
    /\ phase = "serving"
    /\ to[c] = "own"
    /\ handler[c] = "none"
    /\ handler' = [handler EXCEPT ![c] = "accepted"]
    /\ UNCHANGED <<wanted, hostVars, fileVars, cmdVars, stage, whole, applied>>

\* A query, or a local change.
Handles(c, outcome) ==
    /\ handler[c] = "accepted"
    /\ kind[c] \in {"read", "write"}
    /\ Carried(c, outcome, Service)
    /\ handler' = [handler EXCEPT ![c] = Answer(c, outcome)]
    /\ UNCHANGED <<wanted, hostVars, lock, descriptor, identity, cmdVars, stage, whole>>

\* Mutant: an upload that ended early is installed.
HandlesAnyUpload(c, outcome) ==
    /\ handler[c] = "accepted"
    /\ kind[c] = "upload"
    /\ Carried(c, outcome, Service)
    /\ handler' = [handler EXCEPT ![c] = Answer(c, outcome)]
    /\ UNCHANGED <<wanted, hostVars, lock, descriptor, identity, cmdVars, stage, whole>>

\* writeControlUploadResult: a file that ends early, or is not of the announced
\* size, is refused before anything is changed.
HandlesUpload(c, outcome) ==
    /\ handler[c] = "accepted"
    /\ kind[c] = "upload"
    /\ IF c \in whole
       THEN Carried(c, outcome, Service)
       ELSE outcome = "error" /\ UNCHANGED <<applied, owner>>
    /\ handler' = [handler EXCEPT ![c] = Answer(c, outcome)]
    /\ UNCHANGED <<wanted, hostVars, lock, descriptor, identity, cmdVars, stage, whole>>

\* enrollmentMu is held by an enrollment in the host.
EnrollmentMuHeld == \E c \in Commands : handler[c] = "accepted" /\ stage[c] # "none"

\* Mutant: LocalEnroll starts another exchange without enrollmentMu.
LocalEnrollUnlocked(c) ==
    /\ handler[c] = "accepted"
    /\ kind[c] = "enroll"
    /\ stage[c] = "none"
    /\ IF mem # None
       THEN handler' = [handler EXCEPT ![c] = Answer(c, "error")] /\ UNCHANGED stage
       ELSE stage' = [stage EXCEPT ![c] = "ask"] /\ UNCHANGED handler
    /\ UNCHANGED <<wanted, hostVars, fileVars, cmdVars, whole, applied>>

\* LocalEnroll: one enrollment at a time, of a host that has no identity.
LocalEnroll(c) ==
    /\ handler[c] = "accepted"
    /\ kind[c] = "enroll"
    /\ stage[c] = "none"
    /\ IF EnrollmentMuHeld \/ mem # None
       THEN handler' = [handler EXCEPT ![c] = Answer(c, "error")] /\ UNCHANGED stage
       ELSE stage' = [stage EXCEPT ![c] = "ask"] /\ UNCHANGED handler
    /\ UNCHANGED <<wanted, hostVars, fileVars, cmdVars, whole, applied>>

----------------------------------------------------------------------------
(* EnrollWithPrompt, in the host or in the command that holds the lock.    *)

\* The exchange ends, with the command or with the request.
Ends(c, outcome) ==
    /\ stage' = [stage EXCEPT ![c] = "none"]
    /\ IF pc[c] = "direct"
       THEN /\ Goto(c, "closing")
            /\ result' = [result EXCEPT ![c] = outcome]
            /\ UNCHANGED handler
       ELSE handler' = [handler EXCEPT ![c] = Answer(c, outcome)] /\ UNCHANGED <<pc, result>>

\* Airlock issues a device code, and the prompt shows it.
AsksForCode(c) ==
    /\ stage[c] = "ask"
    /\ stage' = [stage EXCEPT ![c] = "pending"]
    /\ UNCHANGED <<wanted, hostVars, fileVars, cmdVars, handler, whole, applied>>

\* External: a person approves the code.
AirlockApproves(c) ==
    /\ stage[c] = "pending"
    /\ stage' = [stage EXCEPT ![c] = "approved"]
    /\ UNCHANGED <<wanted, hostVars, fileVars, cmdVars, handler, whole, applied>>

\* A request fails, the code is denied or expires, or the context ends.
EnrollmentFails(c) ==
    /\ stage[c] # "none"
    /\ Ends(c, "error")
    /\ UNCHANGED <<wanted, hostVars, fileVars, kind, to, tries, whole, applied>>

\* Mutant: the signal reaches only a host that is waiting.
SignalledIfWaiting == remote = "blocked"

\* signalCredentialsReady keeps the signal for a host that is not waiting yet.
Signalled == TRUE

\* SetEnrollment, and the signal.
EnrollmentApproved(c) ==
    /\ stage[c] = "approved"
    /\ identity' = c
    /\ IF pc[c] = "direct"
       THEN owner' = SavedBy(Caller) /\ UNCHANGED <<mem, ready>>
       ELSE /\ owner' = SavedBy(Service)
            /\ mem' = c
            /\ ready' = Signalled
    /\ Ends(c, "ok")
    /\ UNCHANGED <<wanted, phase, remote, lock, descriptor, kind, to, tries, whole, applied>>

\* The save fails after host.json was replaced: the command fails, and memory
\* still has no identity.
EnrollmentHalfSaved(c) ==
    /\ stage[c] = "approved"
    /\ identity' = c
    /\ owner' = SavedBy(IF pc[c] = "direct" THEN Caller ELSE Service)
    /\ Ends(c, "error")
    /\ UNCHANGED <<wanted, hostVars, lock, descriptor, kind, to, tries, whole, applied>>

----------------------------------------------------------------------------

HostStep ==
    \/ HostOpens
    \/ HostListens
    \/ HostCannotListen
    \/ ReadsCredentials
    \/ Blocks
    \/ Wakes
    \/ HostStops
    \/ HostExits
    \/ HostKilled
    \/ ServiceStarted
    \/ ServiceStopped

Outcome == {"ok", "error"}

CommandStep(c) ==
    \/ AsksStatus(c)
    \/ OpensToCheck(c)
    \/ ChecksUnenrolled(c)
    \/ StartsService(c)
    \/ SeesReady(c)
    \/ NotReady(c)
    \/ EnrollOpens(c)
    \/ Resolves(c)
    \/ CallFails(c)
    \/ CallReturns(c)
    \/ EnrollReturns(c)
    \/ OpensDirectly(c)
    \/ FindsLocked(c)
    \/ \E outcome \in Outcome : RunsDirectly(c, outcome)
    \/ SendsUpload(c)
    \/ Closes(c)

ExchangeStep(c) ==
    \/ AsksForCode(c)
    \/ EnrollmentFails(c)
    \/ EnrollmentApproved(c)
    \/ EnrollmentHalfSaved(c)

HandlerStep(c) ==
    \/ \E outcome \in Outcome : Handles(c, outcome) \/ HandlesUpload(c, outcome)
    \/ LocalEnroll(c)

Next ==
    \/ HostStep
    \/ \E c \in Commands :
          \/ \E k \in Kinds[c] : Begin(c, k)
          \/ CommandStep(c)
          \/ Interrupted(c)
          \/ Accepts(c)
          \/ HandlerStep(c)
          \/ ExchangeStep(c)
          \/ AirlockApproves(c)

Spec == Init /\ [][Next]_vars

\* systemd restarts a host that fails (Restart=on-failure), and does not kill it
\* before it serves for ever; a command, its handler and its exchange have deadlines.
Fairness ==
    /\ SF_vars(HostOpens)
    /\ SF_vars(HostListens)
    /\ WF_vars(HostExits)
    /\ \A c \in Commands : WF_vars(CommandStep(c) \/ HandlerStep(c) \/ ExchangeStep(c))

FairSpec == Spec /\ Fairness

----------------------------------------------------------------------------
(* Properties.                                                             *)

\* A command that changes the host is carried out at most once, and once if it
\* reports success, however its call ended (controlFirst: only read-only commands
\* are tried again).
ChangedAtMostOnce ==
    \A c \in Commands :
        /\ applied[c] <= 1
        /\ kind[c] \in {"write", "upload"} /\ result[c] = "ok" => applied[c] = 1

\* An enrollment reported as complete is the identity on disk: no concurrent or
\* later enrollment, direct or through the host, replaces it (LocalEnroll,
\* enrollHost).
ReportedEnrollmentKept ==
    \A c \in Commands : kind[c] = "enroll" /\ result[c] = "ok" => identity = c

\* A serving host is the one control.json names: no host that stops, or was killed,
\* takes away or leaves behind another's descriptor (cleanupDescriptor).
ServerIsNamed == phase = "serving" => descriptor = "own" /\ lock = Host

\* The credentials signal is never lost: a host that has an identity and waits, or
\* is about to, finds the signal (waitForCredentials, signalCredentialsReady).
SignalNotLost == mem # None /\ remote \in {"none", "blocked"} => ready

\* Every command ends: its calls, the retry loop and an enrollment have deadlines.
CommandsEnd == \A c \in Commands : pc[c] # "idle" ~> pc[c] = "done"

\* A service that was started comes to serve, whatever commands used the store
\* before or hold it meanwhile (requireUnenrolledState, runDirect).
ServiceComesUp == wanted ~> (phase = "serving" \/ ~wanted)

----------------------------------------------------------------------------
(* The inductive form of the safety properties.                            *)

\* The lock is the host's while it is up, and a command's at the steps between
\* OpenStore and Close.
LockHeld ==
    /\ phase # "down" <=> lock = Host
    /\ \A c \in Commands : pc[c] \in {"checking", "direct", "closing"} <=> lock = c

HostCoherent ==
    /\ phase = "down" => mem = None
    /\ phase \in {"down", "opened"} => remote = "reading"
    /\ mem # None => identity = mem
    /\ ServerIsNamed
    /\ SignalNotLost

\* Where a command's request can be, and what it can have changed so far.
CallCoherent(c) ==
    /\ kind[c] = None => pc[c] = "idle"
    /\ pc[c] \in {"status", "check", "checking", "start", "ready", "enroll"} => kind[c] = "enroll"
    /\ handler[c] = "accepted" => phase \in {"serving", "stopping"} /\ pc[c] \in {"call", "done"}
    /\ handler[c] \in {"ok", "error", "lost"} => pc[c] = "call"
    /\ kind[c] \in {None, "read", "enroll"} => applied[c] = 0
    /\ applied[c] <= 1
    /\ applied[c] = 1 =>
          /\ handler[c] # "accepted"
          /\ pc[c] \in {"closing", "done"} \/ (pc[c] = "call" /\ handler[c] # "none")
    /\ kind[c] \in {"write", "upload"} /\ (result[c] = "ok" \/ handler[c] = "ok") => applied[c] = 1
    /\ result[c] # "none" => pc[c] \in {"closing", "done"}
    /\ kind[c] = "upload" /\ applied[c] > 0 => c \in whole

\* One exchange at a time, of a host that has no identity; and none after one was
\* reported.
EnrollmentCoherent ==
    /\ \A c \in Commands : stage[c] # "none" =>
          /\ kind[c] = "enroll"
          /\ pc[c] = "direct" \/ handler[c] = "accepted"
          /\ mem = None
    /\ \A c, d \in Commands : stage[c] # "none" /\ stage[d] # "none" => c = d
    /\ \A c \in Commands : kind[c] = "enroll" /\ (result[c] = "ok" \/ handler[c] = "ok") =>
          /\ identity = c
          /\ phase # "down" => mem = c
          /\ \A d \in Commands : stage[d] = "none"

\* The lock, the calls and the enrollments are coherent: the inductive form of
\* ChangedAtMostOnce, ReportedEnrollmentKept and SignalNotLost, and what it needs of
\* them: an upload changes the host only with its whole file, and a serving host is
\* the one control.json names (OpenStore, controlFirst, writeControlUploadResult,
\* cleanupDescriptor).
ControlInvariant ==
    /\ TypeOK
    /\ LockHeld
    /\ HostCoherent
    /\ \A c \in Commands : CallCoherent(c)
    /\ EnrollmentCoherent
============================================================================
