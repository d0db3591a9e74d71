------------------------------- MODULE Reset -------------------------------
(***************************************************************************)
(* Unenrollment: ResetState deletes the state directory's contents under a *)
(* marker, and OpenStore finishes a reset it finds marked (state.go); the  *)
(* unenroll command stops the managed service around it and starts it      *)
(* again (service.go, service_linux.go).                                   *)
(*                                                                         *)
(* Each entry of the directory holds the identity it belongs to.  A kill   *)
(* keeps the directory as it is; a power loss may also undo any change     *)
(* since the last sync of the directory, name by name.  The process lock   *)
(* has one holder, so one variable says how far the holder is.             *)
(***************************************************************************)

CONSTANTS
    Directories,  \* the entries RemoveAll deletes file by file
    Strays        \* names that are not resettableStateEntry

HostJSON == "host.json"
Marker   == ".resetting"
Scratch  == ".write-reset"

Entries == Directories \cup {HostJSON}
Names   == Entries \cup Strays \cup {Marker, Scratch}

ASSUME ResetAssumption ==
    /\ Directories \cap Strays = {}
    /\ {HostJSON, Marker, Scratch} \cap (Directories \cup Strays) = {}

\* An entry is absent, belongs to the enrolled or to a fresh identity, or is a
\* directory with some of its files deleted.
Content == {"none", "enrolled", "fresh", "torn"}

VARIABLES
    dir,        \* [Names -> what the directory shows]
    survives,   \* [Names -> what a power loss may leave of it]
    holder,     \* the holder of the process lock: "none", "host" or "cli"
    step,       \* how far the holder is
    left,       \* the listed entries resetStateLocked has not removed yet
    service,    \* the service: "active" or "inactive"
    cli,        \* the unenroll command
    restart,    \* its decision to start the service again
    cancelled,  \* its context ended, or it was killed
    confirmed,  \* history: a ResetState has returned nil
    powerLost   \* history: the machine has lost its power

diskVars    == <<dir, survives>>
historyVars == <<confirmed, powerLost>>
lockVars    == <<holder, step, left>>
commandVars == <<service, cli, restart, cancelled>>
resetVars ==
    <<dir, survives, holder, step, left, service, cli, restart, cancelled, confirmed, powerLost>>

Steps == {"idle", "validating", "marking", "marked", "listing", "removing", "removed",
          "unmarked", "checking", "loading", "created", "open"}

ResetFlagsOK ==
    /\ restart \in BOOLEAN
    /\ cancelled \in BOOLEAN
    /\ confirmed \in BOOLEAN
    /\ powerLost \in BOOLEAN

ResetTypeOK ==
    /\ ResetFlagsOK
    /\ dir \in [Names -> Content]
    /\ survives \in [Names -> SUBSET Content]
    /\ holder \in {"none", "host", "cli"}
    /\ step \in Steps
    /\ left \in SUBSET (Names \ (Strays \cup {Marker}))
    /\ service \in {"active", "inactive"}
    /\ cli \in {"idle", "stopping", "resetting", "ending"}
    /\ holder = "none" <=> step = "idle"
    /\ holder = "cli" => cli = "resetting"
    /\ \A n \in Names : dir[n] \in survives[n]

ResetInit ==
    /\ dir = [n \in Names |-> IF n \in Entries THEN "enrolled" ELSE "none"]
    /\ survives = [n \in Names |-> {dir[n]}]
    /\ holder = "none"
    /\ step = "idle"
    /\ left = {}
    /\ service \in {"active", "inactive"}
    /\ cli = "idle"
    /\ restart = FALSE
    /\ cancelled = FALSE
    /\ confirmed = FALSE
    /\ powerLost = FALSE

----------------------------------------------------------------------------
(* The directory.                                                          *)

Present(n) == dir[n] # "none"

Put(n, content) ==
    /\ dir' = [dir EXCEPT ![n] = content]
    /\ survives' = [survives EXCEPT ![n] = @ \cup {content}]

\* rename(2): both names change at once.
Rename(from, to, content) ==
    /\ dir' = [dir EXCEPT ![from] = "none", ![to] = content]
    /\ survives' = [survives EXCEPT ![from] = @ \cup {"none"}, ![to] = @ \cup {content}]

\* Mutant: the directory is not synced.
SyncSkipped == UNCHANGED diskVars

SyncStateRoot ==
    /\ survives' = [n \in Names |-> {dir[n]}]
    /\ UNCHANGED dir

To(next) == step' = next /\ UNCHANGED <<holder, left>>

\* The lock is released; an unenroll command goes on to its end.
Release ==
    /\ holder' = "none"
    /\ step' = "idle"
    /\ left' = {}
    /\ cli' = IF holder = "cli" THEN "ending" ELSE cli
    /\ UNCHANGED <<service, restart, cancelled>>

\* A process that is gone holds no lock.
Dead(processes) ==
    IF holder \in processes
    THEN holder' = "none" /\ step' = "idle" /\ left' = {}
    ELSE UNCHANGED lockVars

\* Any step before "open" may fail; its function returns the error.
StoreFails ==
    /\ step \notin {"idle", "open"}
    /\ Release
    /\ IF step = "marking" THEN Put(Scratch, "none") ELSE UNCHANGED diskVars
    /\ UNCHANGED historyVars

----------------------------------------------------------------------------
(* ResetState.                                                             *)

\* Another holder of the lock makes the command fail.
ResetBegins ==
    /\ cli = "resetting"
    /\ holder # "cli"
    /\ IF holder = "none"
       THEN /\ holder' = "cli"
            /\ step' = "validating"
            /\ UNCHANGED <<left, commandVars>>
       ELSE /\ cli' = "ending"
            /\ UNCHANGED <<lockVars, service, restart, cancelled>>
    /\ UNCHANGED <<diskVars, historyVars>>

\* validateResetContents and resetStateEntries before anything is changed; an
\* invalid directory is refused (StoreFails).
WriteScratch ==
    /\ step = "validating"
    /\ Present(Marker) \/ Present(HostJSON)
    /\ \A n \in Strays : ~Present(n)
    /\ Put(Scratch, "fresh")
    /\ To("marking")
    /\ UNCHANGED <<commandVars, historyVars>>

PublishMarker ==
    /\ step = "marking"
    /\ Rename(Scratch, Marker, "fresh")
    /\ To("marked")
    /\ UNCHANGED <<commandVars, historyVars>>

SyncMarker ==
    /\ step = "marked"
    /\ SyncStateRoot
    /\ To("listing")
    /\ UNCHANGED <<commandVars, historyVars>>

\* resetStateLocked; a stray entry is an error (StoreFails).
ListEntries ==
    /\ step = "listing"
    /\ \A n \in Strays : ~Present(n)
    /\ left' = {n \in Names \ {Marker} : Present(n)}
    /\ step' = "removing"
    /\ UNCHANGED <<diskVars, holder, commandVars, historyVars>>

TearDirectory(n) ==
    /\ step = "removing"
    /\ n \in left \cap Directories
    /\ dir[n] # "torn"
    /\ Put(n, "torn")
    /\ UNCHANGED <<lockVars, commandVars, historyVars>>

RemoveEntry(n) ==
    /\ step = "removing"
    /\ n \in left
    /\ Put(n, "none")
    /\ left' = left \ {n}
    /\ UNCHANGED <<holder, step, commandVars, historyVars>>

SyncRemovals ==
    /\ step = "removing"
    /\ left = {}
    /\ SyncStateRoot
    /\ To("removed")
    /\ UNCHANGED <<commandVars, historyVars>>

RemoveMarker ==
    /\ step = "removed"
    /\ Put(Marker, "none")
    /\ To("unmarked")
    /\ UNCHANGED <<commandVars, historyVars>>

\* ResetState returns nil, or OpenStore goes on to load.
ResetEnds ==
    /\ step = "unmarked"
    /\ SyncStateRoot
    /\ \/ /\ holder = "cli"
          /\ Release
          /\ confirmed' = TRUE
          /\ UNCHANGED powerLost
       \/ /\ holder = "host"
          /\ To("loading")
          /\ UNCHANGED <<commandVars, historyVars>>

----------------------------------------------------------------------------
(* OpenStore and the running host.                                         *)

OpenBegins ==
    /\ service = "active"
    /\ holder = "none"
    /\ holder' = "host"
    /\ step' = "checking"
    /\ UNCHANGED <<diskVars, left, commandVars, historyVars>>

\* Mutant: OpenStore ignores the marker.
MarkerIgnored ==
    /\ step = "checking"
    /\ To("loading")
    /\ UNCHANGED <<diskVars, commandVars, historyVars>>

CheckMarker ==
    /\ step = "checking"
    /\ To(IF Present(Marker) THEN "listing" ELSE "loading")
    /\ UNCHANGED <<diskVars, commandVars, historyVars>>

\* load creates host.json where there is none.
Load ==
    /\ step = "loading"
    /\ IF Present(HostJSON)
       THEN To("open") /\ UNCHANGED diskVars
       ELSE To("created") /\ Put(HostJSON, "fresh")
    /\ UNCHANGED <<commandVars, historyVars>>

SyncCreated ==
    /\ step = "created"
    /\ SyncStateRoot
    /\ To("open")
    /\ UNCHANGED <<commandVars, historyVars>>

\* The host makes the directories of its identity as it needs them.
HostWrites(n) ==
    /\ step = "open"
    /\ ~Present(n)
    /\ Put(n, dir[HostJSON])
    /\ UNCHANGED <<lockVars, commandVars, historyVars>>

\* The host stops with an error; the unit's Restart=on-failure starts it again.
HostExits ==
    /\ step = "open"
    /\ Release
    /\ UNCHANGED <<diskVars, historyVars>>

----------------------------------------------------------------------------
(* The unenroll command and the service.                                   *)

UnenrollBegins ==
    /\ cli = "idle"
    /\ restart' = (service = "active")
    /\ cli' = IF service = "active" THEN "stopping" ELSE "resetting"
    /\ cancelled' = FALSE
    /\ UNCHANGED <<diskVars, lockVars, service, historyVars>>

\* systemctl stop returns when the host is gone.
StopService ==
    /\ cli = "stopping"
    /\ cli' = "resetting"
    /\ service' = "inactive"
    /\ Dead({"host"})
    /\ UNCHANGED <<diskVars, restart, cancelled, historyVars>>

\* Stop fails, or its context has ended: the command returns.
StopFails ==
    /\ cli = "stopping"
    /\ cli' = "idle"
    /\ restart' = FALSE
    /\ UNCHANGED <<diskVars, lockVars, service, cancelled, historyVars>>

\* Mutant: the service is started again only after a successful reset.
UnenrollEndsUnlessFailed ==
    /\ cli = "ending"
    /\ cli' = "idle"
    /\ service' = IF restart /\ ~cancelled /\ confirmed THEN "active" ELSE service
    /\ UNCHANGED <<diskVars, lockVars, restart, cancelled, historyVars>>

\* Whatever ResetState returned.  Start does nothing in a context that has ended.
UnenrollEnds ==
    /\ cli = "ending"
    /\ cli' = "idle"
    /\ service' = IF restart /\ ~cancelled THEN "active" ELSE service
    /\ UNCHANGED <<diskVars, lockVars, restart, cancelled, historyVars>>

\* SIGINT or SIGTERM: ResetState takes no context and goes on.
Interrupt ==
    /\ cli # "idle"
    /\ cancelled' = TRUE
    /\ UNCHANGED <<diskVars, lockVars, service, cli, restart, historyVars>>

\* An administrator starts the service; systemctl start of an active unit is void.
StartService ==
    /\ service = "inactive"
    /\ service' = "active"
    /\ UNCHANGED <<diskVars, lockVars, cli, restart, cancelled, historyVars>>

\* Someone puts an unknown file into the directory, or takes it away.
Stray(n) ==
    /\ dir' = [dir EXCEPT ![n] = IF Present(n) THEN "none" ELSE "fresh"]
    /\ survives' = [survives EXCEPT ![n] = {dir'[n]}]
    /\ UNCHANGED <<lockVars, commandVars, historyVars>>

----------------------------------------------------------------------------
(* Crashes.                                                                *)

CommandKilled ==
    /\ cli # "idle"
    /\ Dead({"cli"})
    /\ cli' = "idle"
    /\ cancelled' = TRUE
    /\ UNCHANGED <<diskVars, service, restart, historyVars>>

HostKilled ==
    /\ holder = "host"
    /\ Dead({"host"})
    /\ UNCHANGED <<diskVars, commandVars, historyVars>>

\* The unit is enabled: the machine comes back with the service active.
PowerLoss ==
    /\ Dead({"host", "cli"})
    /\ dir' \in {d \in [Names -> Content] : \A n \in Names : d[n] \in survives[n]}
    /\ survives' = [n \in Names |-> {dir'[n]}]
    /\ cli' = "idle"
    /\ cancelled' = (cli # "idle" \/ cancelled)
    /\ service' = "active"
    /\ powerLost' = TRUE
    /\ UNCHANGED <<restart, confirmed>>

----------------------------------------------------------------------------

ResetStep ==
    \/ WriteScratch \/ PublishMarker \/ SyncMarker \/ ListEntries
    \/ \E n \in Names : TearDirectory(n) \/ RemoveEntry(n)
    \/ SyncRemovals \/ RemoveMarker \/ ResetEnds

OpenStep == OpenBegins \/ CheckMarker \/ Load \/ SyncCreated

HostStep == HostExits \/ \E n \in Directories : HostWrites(n)

UnenrollStep == UnenrollBegins \/ StopService \/ StopFails \/ ResetBegins \/ UnenrollEnds

Environment ==
    \/ StoreFails \/ Interrupt \/ StartService \/ CommandKilled \/ HostKilled \/ PowerLoss
    \/ \E n \in Strays : Stray(n)

ResetNext == ResetStep \/ OpenStep \/ HostStep \/ UnenrollStep \/ Environment

ResetSpec == ResetInit /\ [][ResetNext]_resetVars

Disturbance ==
    StoreFails \/ HostExits \/ UnenrollBegins \/ Interrupt \/ CommandKilled \/ HostKilled
    \/ PowerLoss

\* Errors, crashes and commands end, processes run on, and a stopped service is
\* started again some day: at boot, or by an administrator.
FairSpec ==
    /\ ResetSpec
    /\ <>[][~Disturbance]_resetVars
    /\ WF_resetVars(ResetStep)
    /\ WF_resetVars(OpenStep)
    /\ WF_resetVars(StartService)
    /\ WF_resetVars(StopService) /\ WF_resetVars(ResetBegins) /\ WF_resetVars(UnenrollEnds)

----------------------------------------------------------------------------
(* Properties.                                                             *)

\* Every directory is whole and belongs to the identity in host.json.
Consistent ==
    \A n \in Directories : Present(n) => Present(HostJSON) /\ dir[n] = dir[HostJSON]

Whole == Present(HostJSON) /\ Consistent

\* OpenStore finishes an interrupted reset before it loads: everything in the
\* directory of an open store belongs to the identity in host.json, and no
\* directory is half deleted, whatever was killed or failed before.
OneIdentity == step = "open" /\ ~powerLost => Whole

\* The same when the machine may lose its power, which the syncs of the reset
\* guard against: an interrupted reset leaves nothing of the enrollment behind.  The
\* code does not keep this: OpenStore trusts a marker that was not synced.
InterruptedResetCompletes == step = "open" => Whole

\* state.go "ResetState permanently removes enrollment, connectors, artifacts, child
\* state, and queued outcomes": once it has returned, not even a power loss brings an
\* entry of the enrolled identity back.
ResetIsPermanent ==
    confirmed => \A n \in Entries : "enrolled" \notin survives[n]

\* A reset that is marked is finished in the end, by the command or by the next
\* OpenStore, unless an unknown file turns up in the directory.
MarkedResetFinishes ==
    Present(Marker) ~> ~Present(Marker) \/ \E n \in Strays : Present(n)

\* README "The command stops and safely restarts a running managed service": when
\* unenroll has returned, a service it stopped is active again, also when ResetState
\* failed, unless the command was interrupted or killed.
ServiceComesBack == cli = "idle" /\ restart /\ ~cancelled => service = "active"

\* Until the power fails, what is half deleted is marked.
TornIsMarked == ~powerLost => Present(Marker) \/ Consistent

\* What the holder of the lock relies on at each step: a reset removes entries only
\* under the marker, takes the marker away when all are gone, and nothing is loaded
\* or written while it is there.
StepCoherent ==
    /\ step \in {"marked", "listing", "removing", "removed"} => Present(Marker)
    /\ step \in {"unmarked", "loading", "created", "open"} => ~Present(Marker)
    /\ step \in {"created", "open"} => Present(HostJSON)
    /\ step = "removing" => \A n \in Entries : Present(n) => n \in left
    /\ step \in {"removed", "unmarked"} => \A n \in Entries : ~Present(n)

\* In every state the store is held by the process whose step is next, which finds
\* the directory as its earlier steps left it, and a reset that has returned is
\* permanent (ResetState, OpenStore, the process lock).
ResetInvariant ==
    ResetTypeOK /\ ResetIsPermanent /\ StepCoherent /\ TornIsMarked /\ ServiceComesBack
============================================================================
