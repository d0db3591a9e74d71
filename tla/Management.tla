---------------------------- MODULE Management -----------------------------
(***************************************************************************)
(* Remote management jobs (host.go handleManagement and                    *)
(* recoverInterruptedManagement, journal.go): a job is journalled as       *)
(* running, executed under managementMu, journalled with its outcome and   *)
(* reported until the server acknowledges it.  The host may be killed      *)
(* between any two writes; recovery then decides from host.json and the    *)
(* journal whether the job took effect.                                    *)
(*                                                                         *)
(* An operation is split where a crash can separate its effects: journal,  *)
(* artifact directories, host.json, report.  The local commands are atomic *)
(* here; Inventory has their steps and the delivery of mutations.  The     *)
(* server is external: it gives each attempt a new token and rejects the   *)
(* completions of superseded ones.                                         *)
(***************************************************************************)
EXTENDS Store

CONSTANTS
    Scenarios,    \* what a behaviour starts from; see Scenario
    MaxAttempts,  \* bound: deliveries of one job
    MaxFaults     \* bound: writes that fail

Kinds == {"shell", "install", "update", "rollback", "remove"}

Transitions == {"update", "rollback"}

\* The state host.json holds when the host starts, the jobs the server will send, and
\* the connectors that local commands change.
Scenario ==
    [state : PersistedState,
     work  : UNION {[jobs -> [kind : Kinds, id : Ids]] : jobs \in SUBSET Jobs},
     local : SUBSET Ids]

\* Jobs before those of the behaviour are over: no inventory waits for one.
ASSUME ManagementAssumption ==
    /\ MaxAttempts \in Nat
    /\ MaxFaults \in Nat
    /\ Tokens = 1..MaxAttempts
    /\ Scenarios \subseteq Scenario
    /\ \A s \in Scenarios :
          /\ Loadable(s.state)
          /\ \A id \in PendingIds(s.state) : s.state.pending[id].attempt = None

VARIABLES
    mem,        \* Store.state
    disk,       \* host.json
    files,      \* [Ids -> the artifact directories of the connector]
    children,   \* [Ids -> the slot the connector's child was launched from, or None]
    journal,    \* [Jobs -> the journalled outcome, or None]
    phase,      \* the host: "starting", "up" or "failed"
    waiting,    \* handleManagement goroutines waiting for managementMu
    op,         \* the holder of managementMu and where it is
    sending,    \* the outcome flushManagementOutcomes is sending, or None
    attempt,    \* the server's latest attempt of each job
    completed,  \* [Jobs -> the completion the server accepted, or None]
    applied,    \* history: how often each job's operation was written or run
    faults,     \* writes that failed so far
    scenario    \* the scenario of this behaviour; it never changes

storeVars   == <<mem, disk>>
childVars   == <<files, children>>
sessionVars == <<phase, waiting, sending, attempt, completed>>
vars == <<mem, disk, files, children, journal, phase, waiting, op, sending,
          attempt, completed, applied, faults, scenario>>

Work == scenario.work

Statuses == {"running", "success", "error"}

\* A failure is "error", "timeout" or "canceled" in the code: one status here.
ManagementOutcome ==
    [token : Tokens, status : Statuses, before : ConnectorRecord \cup {None},
     revision : 0..MaxRevision]

Completion ==
    [job : Jobs, token : Tokens, status : Statuses \ {"running"},
     revision : 0..MaxRevision]

ASSUME JournalAssumption == None \notin ManagementOutcome \cup Completion

Free == [step |-> "free"]

\* Who asked for a recovery: serveRemote, the session worker or a handler.
Startup == <<"startup">>
Worker  == <<"worker">>
Caller  == {Startup, Worker} \cup (Jobs \X Tokens)

Operation ==
    {Free}
    \cup [step : {"journalled", "executing", "staged", "restoring", "activated",
                  "removing", "succeeded", "failed"},
          job : Jobs, token : Tokens, record : ConnectorRecord \cup {None}]
    \cup [step : {"replaying"}, job : Jobs, token : Tokens, outcome : ManagementOutcome]
    \cup [step : {"rebound"}, job : Jobs, outcome : ManagementOutcome]
    \cup [step : {"reporting", "acknowledged"}, completion : Completion]
    \cup [step : {"recovering"}, caller : Caller]
    \cup [step : {"recovered"}, caller : Caller, job : Jobs, outcome : ManagementOutcome]

TypeOK ==
    /\ mem \in PersistedState
    /\ disk \in PersistedState
    /\ files \in [Ids -> SUBSET Artifacts]
    /\ children \in [Ids -> Slot \cup {None}]
    /\ journal \in [Jobs -> ManagementOutcome \cup {None}]
    /\ phase \in {"starting", "up", "failed"}
    /\ waiting \in SUBSET (Jobs \X Tokens)
    /\ op \in Operation
    /\ sending \in Completion \cup {None}
    /\ attempt \in [Jobs -> 0..MaxAttempts]
    /\ completed \in [Jobs -> Completion \cup {None}]
    /\ applied \in [Jobs -> Nat]
    /\ faults \in 0..MaxFaults
    /\ scenario \in Scenarios

----------------------------------------------------------------------------
(* Files, children and the journal.                                        *)

\* The artifacts a record names.
Named(record) ==
    {slot.artifact : slot \in {record.active, record.previous} \ {None}}

\* CleanupStaging: directories of unknown connectors and unnamed artifacts go.
CleanedUp(st, f) ==
    [id \in Ids |-> IF st.connectors[id] = None THEN {}
                    ELSE f[id] \cap Named(st.connectors[id])]

Init ==
    /\ scenario \in Scenarios
    /\ mem = scenario.state
    /\ disk = mem
    /\ files = CleanedUp(mem, [id \in Ids |-> Artifacts])
    /\ children = [id \in Ids |-> None]
    /\ journal = [j \in Jobs |-> None]
    /\ phase = "starting"
    /\ waiting = {}
    /\ op = Free
    /\ sending = None
    /\ attempt = [j \in Jobs |-> 0]
    /\ completed = [j \in Jobs |-> None]
    /\ applied = [j \in Jobs |-> 0]
    /\ faults = 0

\* Start launches a record's active slot, if its artifact is on disk; the
\* child may fail to become ready all the same.
Start(id, record) ==
    \/ children' = [children EXCEPT ![id] = None]
    \/ /\ record.active.artifact \in files[id]
       /\ children' = [children EXCEPT ![id] = record.active]

Stop(id) == children' = [children EXCEPT ![id] = None]

\* A write of host.json that succeeds, and one that fails before or after the rename.
Fault == faults < MaxFaults /\ faults' = faults + 1

Saved(candidate) ==
    /\ SaveAccepts(mem, candidate)
    /\ mem' = candidate
    /\ disk' = candidate
    /\ UNCHANGED faults

SaveFaults(candidate) ==
    /\ SaveAccepts(mem, candidate)
    /\ Fault
    /\ mem' = mem
    /\ disk' \in {disk, candidate}

Outcome(token, status, before, revision) ==
    [token |-> token, status |-> status, before |-> before, revision |-> revision]

\* saveManagementOutcome, by the same atomicWrite.
JournalSaved(j, outcome) ==
    journal' = [journal EXCEPT ![j] = outcome] /\ UNCHANGED faults

JournalFaults(j, outcome) ==
    Fault /\ journal' \in {journal, [journal EXCEPT ![j] = outcome]}

Running(j) == journal[j] # None /\ journal[j].status = "running"

\* Mutant: any pending mutation counts as the job's.
RevisionOfAnyPending(id, j) ==
    IF mem.pending[id] # None THEN mem.pending[id].revision ELSE 0

RemoteInventoryRevision(id, j) ==
    IF /\ mem.pending[id] # None
       /\ mem.pending[id].attempt # None
       /\ mem.pending[id].attempt.job = j
    THEN mem.pending[id].revision
    ELSE 0

----------------------------------------------------------------------------
(* A delivered job takes managementMu.                                     *)

\* The server serializes management work: one job at a time, redelivered
\* under a new token while it has no completion.
ServerDelivers(j) ==
    /\ phase = "up"
    /\ j \in DOMAIN Work
    /\ completed[j] = None
    /\ attempt[j] < MaxAttempts
    /\ \A k \in Jobs \ {j} : attempt[k] = 0 \/ completed[k] # None
    /\ attempt' = [attempt EXCEPT ![j] = @ + 1]
    /\ waiting' = waiting \cup {<<j, attempt[j] + 1>>}
    /\ UNCHANGED <<storeVars, childVars, journal, phase, op, sending, completed,
                   applied, faults>>

Reporting(j, t, outcome) ==
    [step |-> "reporting",
     completion |-> [job |-> j, token |-> t, status |-> outcome.status,
                     revision |-> outcome.revision]]

Failure(t, before) == Outcome(t, "error", before, 0)

Replaying(j, t) ==
    [step |-> "replaying", job |-> j, token |-> t, outcome |-> journal[j]]

Executing(j, t, record, step) ==
    [step |-> step, job |-> j, token |-> t, record |-> record]

\* The access policy denies the job, or its deadline has passed; either may be so
\* at any delivery.  The journal is not consulted.
Refuse(j, t) ==
    /\ op' = Reporting(j, t, Failure(t, None))
    /\ UNCHANGED <<journal, faults>>

FindRunning(j, t) ==
    /\ Running(j)
    /\ op' = [step |-> "recovering", caller |-> <<j, t>>]
    /\ UNCHANGED <<journal, faults>>

FindFinished(j, t) ==
    /\ journal[j] # None /\ ~Running(j)
    /\ op' = Replaying(j, t)
    /\ UNCHANGED <<journal, faults>>

\* A new job is journalled as running, with the record it starts from.
Begin(j, t) ==
    LET before == IF Work[j].kind = "shell" THEN None ELSE mem.connectors[Work[j].id]
        outcome == Outcome(t, "running", before, 0)
    IN  /\ journal[j] = None
        /\ \/ JournalSaved(j, outcome) /\ op' = Executing(j, t, None, "journalled")
           \/ JournalFaults(j, outcome) /\ op' = Reporting(j, t, Failure(t, None))

\* The mutex goes to the handler that has waited longest.
HandleManagement(j, t) ==
    /\ op = Free
    /\ <<j, t>> \in waiting
    /\ \A u \in Tokens : <<j, u>> \in waiting => t <= u
    /\ waiting' = waiting \ {<<j, t>>}
    /\ Refuse(j, t) \/ FindRunning(j, t) \/ FindFinished(j, t) \/ Begin(j, t)
    /\ UNCHANGED <<storeVars, childVars, phase, sending, attempt, completed, applied>>

----------------------------------------------------------------------------
(* A finished job is delivered again: its outcome is replayed.             *)

\* The success of an earlier attempt must bind its inventory to the new one.
MustRebind ==
    /\ op.outcome.status = "success"
    /\ op.outcome.revision # 0
    /\ op.outcome.token # op.token

Rebinding ==
    LET id == Work[op.job].id
    IN  PutInventoryConnector(mem, id, mem.connectors[id],
                              [job |-> op.job, token |-> op.token])

CanRebind ==
    /\ mem.connectors[Work[op.job].id] # None
    /\ CanEnqueueInventoryMutation(mem, Work[op.job].id)
    /\ CanRevise(mem)

Rebound(revision) ==
    [step |-> "rebound", job |-> op.job,
     outcome |-> Outcome(op.token, op.outcome.status, op.outcome.before, revision)]

\* Mutant: the inventory stays bound to the attempt that was superseded.
ReplayUnbound ==
    /\ op.step = "replaying"
    /\ op' = Rebound(op.outcome.revision)
    /\ UNCHANGED <<storeVars, childVars, journal, applied, faults>>

Replay ==
    /\ op.step = "replaying"
    /\ \/ ~MustRebind /\ op' = Rebound(op.outcome.revision) /\ UNCHANGED <<storeVars, faults>>
       \/ MustRebind /\ ~CanRebind /\ op' = Free /\ UNCHANGED <<storeVars, faults>>
       \/ MustRebind /\ CanRebind /\ Saved(Rebinding) /\ op' = Rebound(mem.revision + 1)
       \/ MustRebind /\ CanRebind /\ SaveFaults(Rebinding) /\ op' = Free
    /\ UNCHANGED <<childVars, journal, applied>>

\* The journal takes the new token and revision before the outcome is reported.
SaveReplayed ==
    /\ op.step = "rebound"
    /\ \/ /\ JournalSaved(op.job, op.outcome)
          /\ op' = Reporting(op.job, op.outcome.token, op.outcome)
       \/ JournalFaults(op.job, op.outcome) /\ op' = Free
    /\ UNCHANGED <<storeVars, childVars, applied>>

----------------------------------------------------------------------------
(* Executing a new job.                                                    *)

Target == Work[op.job].id
Old    == mem.connectors[Target]
Kind   == Work[op.job].kind

Go(step) == op' = [op EXCEPT !.step = step]

Apply == applied' = [applied EXCEPT ![op.job] = @ + 1]

ApplyIfWritten == IF disk' = disk THEN UNCHANGED applied ELSE Apply

\* The server takes the event of the latest attempt of an open job only.
Announced == op.token = attempt[op.job] /\ completed[op.job] = None

\* ManagementEvent "started" is retried until the deadline.
Announce ==
    /\ op.step = "journalled"
    /\ \/ Announced /\ Go("executing") /\ UNCHANGED journal
       \/ /\ op' = Reporting(op.job, op.token, Failure(op.token, None))
          /\ journal' = [journal EXCEPT ![op.job] = None]
    /\ UNCHANGED <<storeVars, childVars, applied, faults>>

\* The operation fails before it has changed anything (a missing connector or
\* rollback slot, an invalid input, no room for another connector).
ExecutionRefused ==
    /\ op.step = "executing"
    /\ Go("failed")
    /\ UNCHANGED <<storeVars, childVars, journal, applied, faults>>

ExecuteShell ==
    /\ op.step = "executing" /\ Kind = "shell"
    /\ Apply
    /\ Go("succeeded") \/ Go("failed")
    /\ UNCHANGED <<storeVars, childVars, journal, faults>>

\* Stage puts the artifact in its directory; cleanupStagingFailure clears it.
Stage(slot) ==
    /\ op.step = "executing" /\ Kind \in {"install", "update"}
    /\ (Old # None) <=> (Kind = "update")
    /\ Old = None => Cardinality(Installed(mem)) < MaxHosted
    /\ \/ /\ files' = [files EXCEPT ![Target] = @ \cup {slot.artifact}]
          /\ op' = Executing(op.job, op.token,
                             IF Old = None THEN FirstRecord(slot)
                                           ELSE UpdatedRecord(Old, slot), "staged")
       \/ /\ files' = [files EXCEPT ![Target] = CleanedUp(mem, files)[Target]]
          /\ Go("failed")
    /\ UNCHANGED <<storeVars, children, journal, applied, faults>>

PrepareRollback ==
    /\ op.step = "executing" /\ Kind = "rollback"
    /\ Old # None
    /\ Old.previous # None
    /\ op' = Executing(op.job, op.token, RolledBackRecord(Old), "staged")
    /\ UNCHANGED <<storeVars, childVars, journal, applied, faults>>

\* Mutant: a transition is persisted without its inventory.
CandidateWithoutInventory == PutRemoteConnector(mem, Target, op.record)

\* What is persisted: the server knows of an installation; it is sent an update
\* or rollback, under the fence of the attempt.
Candidate ==
    IF Kind = "install" THEN PutRemoteConnector(mem, Target, op.record)
    ELSE PutInventoryConnector(mem, Target, op.record, [job |-> op.job, token |-> op.token])

\* Activate gets as far as persisting: the candidate was admitted and became ready.
Activatable ==
    /\ op.step = "staged"
    /\ AdmitConnector(mem, Target, op.record)
    /\ op.record.active.artifact \in files[Target]
    /\ Kind \in Transitions => CanEnqueueInventoryMutation(mem, Target) /\ CanRevise(mem)

Activate ==
    /\ Activatable
    /\ Saved(Candidate)
    /\ children' = [children EXCEPT ![Target] = op.record.active]
    /\ Apply
    /\ Go("activated")
    /\ UNCHANGED <<files, journal>>

\* The save fails; or the candidate is not admitted, in which case the old child
\* keeps running, or not ready.
ActivateFails ==
    /\ \/ Activatable /\ SaveFaults(Candidate) /\ ApplyIfWritten /\ Stop(Target)
       \/ /\ op.step = "staged"
          /\ Stop(Target) \/ UNCHANGED children
          /\ UNCHANGED <<storeVars, applied, faults>>
    /\ Go("restoring")
    /\ UNCHANGED <<files, journal>>

\* Mutant: the candidate's artifact is removed even if the old record names it.
WithoutAnyCandidate == files[Target] \ {op.record.active.artifact}

\* cleanupFailedCandidate removes the candidate's artifact unless a slot names it;
\* a failed installation removes the whole directory.
WithoutCandidate ==
    IF Old = None THEN {}
    ELSE files[Target] \ ({op.record.active.artifact} \ Named(Old))

\* Mutant: host.json is not rewritten.
RewriteSkipped == UNCHANGED <<disk, faults>>

RewriteCurrentState ==
    \/ disk' = mem /\ UNCHANGED faults
    \/ disk' \in {disk, mem} /\ Fault

\* The failed activation is undone: host.json is rewritten from memory, the old
\* slot is started again and the candidate is removed.
Restore ==
    /\ op.step = "restoring"
    /\ RewriteCurrentState
    /\ IF Old = None THEN Stop(Target) ELSE Start(Target, Old)
    /\ files' = [files EXCEPT ![Target] = WithoutCandidate]
    /\ Go("failed")
    /\ UNCHANGED <<mem, journal, applied>>

CleanupConnectorArtifacts ==
    /\ op.step = "activated"
    /\ files' = [files EXCEPT ![Target] = @ \cap Named(op.record)]
    /\ Go("succeeded")
    /\ UNCHANGED <<storeVars, children, journal, applied, faults>>

\* A connector that is not installed only has its child stopped.
Remove ==
    /\ op.step = "executing" /\ Kind = "remove"
    /\ \/ /\ Old = None
          /\ Stop(Target)
          /\ Go("succeeded")
          /\ UNCHANGED <<storeVars, applied, faults>>
       \/ /\ Old # None
          /\ Saved(RemoveRemoteConnector(mem, Target))
          /\ Stop(Target)
          /\ Apply
          /\ Go("removing")
       \/ /\ Old # None
          /\ SaveFaults(RemoveRemoteConnector(mem, Target))
          /\ ApplyIfWritten
          /\ Start(Target, Old)
          /\ Go("failed")
    /\ UNCHANGED <<files, journal>>

RemoveFiles ==
    /\ op.step = "removing"
    /\ \/ files' = [files EXCEPT ![Target] = {}] /\ Go("succeeded")
       \/ UNCHANGED files /\ Go("failed")
    /\ UNCHANGED <<storeVars, children, journal, applied, faults>>

----------------------------------------------------------------------------
(* The outcome is journalled and reported.                                 *)

\* An update or rollback reports the revision of its inventory.  A failed save
\* leaves the journal running and reports nothing.
Finish ==
    /\ op.step \in {"succeeded", "failed"}
    /\ LET before == journal[op.job].before
           revision == IF Kind \in Transitions
                       THEN RemoteInventoryRevision(Target, op.job) ELSE 0
           outcome == IF op.step = "failed" THEN Failure(op.token, before)
                      ELSE Outcome(op.token, "success", before, revision)
       IN  \/ /\ JournalSaved(op.job, outcome)
              /\ op' = Reporting(op.job, op.token, outcome)
           \/ JournalFaults(op.job, outcome) /\ op' = Free
    /\ UNCHANGED <<storeVars, childVars, applied>>

\* The server takes the completion of the latest attempt, and again if identical.
Accepts(c) == c.token = attempt[c.job] /\ completed[c.job] \in {None, c}

ServerCompletes(c) ==
    Accepts(c) /\ completed' = [completed EXCEPT ![c.job] = c]

\* Mutant: the journal is removed whether or not the server answered.
ReportUnanswered ==
    /\ op.step = "reporting"
    /\ Go("acknowledged")
    /\ UNCHANGED <<storeVars, childVars, journal, sessionVars, applied, faults>>

\* The retries end without an answer, or with a rejection, or with a reply.
Report ==
    /\ op.step = "reporting"
    /\ \/ op' = Free /\ UNCHANGED completed
       \/ op' = Free /\ ServerCompletes(op.completion)
       \/ Go("acknowledged") /\ ServerCompletes(op.completion)
    /\ UNCHANGED <<storeVars, childVars, journal, phase, waiting, sending, attempt,
                   applied, faults>>

RemoveOutcome ==
    /\ op.step = "acknowledged"
    /\ journal' = [journal EXCEPT ![op.completion.job] = None]
    /\ op' = Free
    /\ UNCHANGED <<storeVars, childVars, applied, faults>>

\* flushManagementOutcomes, which does not take managementMu.
FlushSends(j) ==
    /\ phase = "up"
    /\ sending = None
    /\ journal[j] # None /\ ~Running(j)
    /\ sending' = Reporting(j, journal[j].token, journal[j]).completion
    /\ UNCHANGED <<storeVars, childVars, journal, phase, waiting, op, attempt, completed,
                   applied, faults>>

FlushEnds ==
    /\ sending # None
    /\ \/ UNCHANGED <<completed, journal>>
       \/ ServerCompletes(sending) /\ UNCHANGED journal
       \/ /\ ServerCompletes(sending)
          /\ journal' = [journal EXCEPT ![sending.job] = None]
    /\ sending' = None
    /\ UNCHANGED <<storeVars, childVars, phase, waiting, op, attempt, applied, faults>>

\* Mutant: the inventory is sent as soon as it is pending.
NeverFenced(id) == FALSE

\* The inventory of a journalled job is held back.
Fenced(id) ==
    mem.pending[id].attempt # None /\ journal[mem.pending[id].attempt.job] # None

\* Mutant: new storage origins do not restart the connector.
DeliverWithoutRestart(id) ==
    /\ phase = "up"
    /\ op = Free
    /\ mem.pending[id] # None
    /\ ~Fenced(id)
    /\ \E origins \in Origins :
          Saved(AcknowledgeInventoryMutation(mem, id, mem.pending[id], origins))
    /\ UNCHANGED <<childVars, journal, op, sessionVars, applied>>

\* flushInventoryMutations delivers a mutation and saves its acknowledgement;
\* new storage origins restart the connector.
DeliverInventory(id) ==
    /\ phase = "up"
    /\ op = Free
    /\ mem.pending[id] # None
    /\ ~Fenced(id)
    /\ \E origins \in Origins :
          LET next == AcknowledgeInventoryMutation(mem, id, mem.pending[id], origins)
          IN  /\ Saved(next)
              /\ IF next.connectors[id] # None
                    /\ next.connectors[id].active # mem.connectors[id].active
                 THEN Start(id, next.connectors[id])
                 ELSE UNCHANGED children
    /\ UNCHANGED <<files, journal, op, sessionVars, applied>>

\* StartFailure retries a connector that has no child.
StartFailure(id) ==
    /\ phase = "up"
    /\ op = Free
    /\ mem.connectors[id] # None
    /\ children[id] = None
    /\ Start(id, mem.connectors[id])
    /\ UNCHANGED <<storeVars, files, journal, op, sessionVars, applied, faults>>

----------------------------------------------------------------------------
(* Recovery of the jobs journalled as running.                             *)

\* serveRemote recovers before the first session, when the control server already
\* takes local commands; the session worker recovers when the lock is free.
RecoveryBegins ==
    /\ op = Free
    /\ \/ phase = "starting" /\ op' = [step |-> "recovering", caller |-> Startup]
       \/ /\ phase = "up"
          /\ \E j \in Jobs : Running(j)
          /\ op' = [step |-> "recovering", caller |-> Worker]
    /\ UNCHANGED <<storeVars, childVars, journal, phase, applied, faults>>

\* An error of recovery ends the host at startup and is ignored later.
RecoveryFails ==
    /\ op' = Free
    /\ phase' = IF op.caller = Startup THEN "failed" ELSE phase

Recovered(j, status, revision) ==
    /\ op' = [step |-> "recovered", caller |-> op.caller, job |-> j,
              outcome |-> Outcome(journal[j].token, status, journal[j].before, revision)]
    /\ UNCHANGED phase

RollbackSlotsSwapped(current, before) ==
    /\ before.previous # None
    /\ current.active = before.previous
    /\ current.previous = before.active

\* Mutant: an interrupted update counts as done if its connector is installed.
AlwaysTookEffect(j) == mem.connectors[Work[j].id] # None

\* The interrupted operation reached host.json.
TookEffect(j) ==
    LET current == mem.connectors[Work[j].id]
        before == journal[j].before
    IN  /\ current # None
        /\ CASE Work[j].kind = "install"  -> before = None
             [] Work[j].kind = "update"   ->
                  before # None /\ RemoteInventoryRevision(Work[j].id, j) # 0
             [] Work[j].kind = "rollback" ->
                  before # None /\ RollbackSlotsSwapped(current, before)

\* It took effect and the connector starts: a success, unless the inventory of a
\* transition is gone, which is an error.
RecoverCommits(j) ==
    LET id == Work[j].id
        revision == RemoteInventoryRevision(id, j)
    IN  /\ TookEffect(j)
        /\ mem.connectors[id].active.artifact \in files[id]
        /\ children' = [children EXCEPT ![id] = mem.connectors[id].active]
        /\ IF Work[j].kind \in Transitions /\ revision = 0 THEN RecoveryFails
           ELSE Recovered(j, "success", revision)
        /\ UNCHANGED <<storeVars, files, applied, faults>>

\* A transition that did not take effect, or does not start, is undone: the
\* record of before the job is put back and started.
RecoverRestores(j) ==
    LET id == Work[j].id
        before == journal[j].before
        restored == PutRemoteConnector(mem, id, before)
    IN  /\ Work[j].kind \in Transitions
        /\ before # None
        /\ \/ Saved(restored) /\ Start(id, before) /\ Recovered(j, "error", 0)
           \/ SaveFaults(restored) /\ Stop(id) /\ RecoveryFails
           \/ /\ ~SaveAccepts(mem, restored)
              /\ RecoveryFails
              /\ UNCHANGED <<storeVars, children, faults>>
        /\ UNCHANGED <<files, applied>>

\* An installation that took effect and does not start is removed again.
RecoverRemovesInstall(j) ==
    LET id == Work[j].id
    IN  /\ Work[j].kind = "install"
        /\ TookEffect(j)
        /\ Stop(id)
        /\ \/ /\ Saved(RemoveRemoteConnector(mem, id))
              /\ files' = [files EXCEPT ![id] = {}]
              /\ Recovered(j, "error", 0)
           \/ /\ SaveFaults(RemoveRemoteConnector(mem, id))
              /\ RecoveryFails
              /\ UNCHANGED files
        /\ UNCHANGED applied

\* A shell, or an operation there is nothing to undo of: recorded as interrupted.
RecoverNothing(j) ==
    /\ \/ Work[j].kind = "shell"
       \/ Work[j].kind = "install" /\ ~TookEffect(j)
       \/ Work[j].kind \in Transitions /\ journal[j].before = None
    /\ Recovered(j, "error", 0)
    /\ UNCHANGED <<storeVars, childVars, applied, faults>>

\* An interrupted removal is carried out.
RecoverRemove(j) ==
    LET id == Work[j].id
    IN  /\ Work[j].kind = "remove"
        /\ \/ /\ mem.connectors[id] = None
              /\ files' = [files EXCEPT ![id] = {}]
              /\ Recovered(j, "success", 0)
              /\ UNCHANGED <<storeVars, children, applied, faults>>
           \/ /\ mem.connectors[id] # None
              /\ Saved(RemoveRemoteConnector(mem, id))
              /\ Stop(id)
              /\ files' = [files EXCEPT ![id] = {}]
              /\ applied' = [applied EXCEPT ![j] = @ + 1]
              /\ Recovered(j, "success", 0)
           \/ /\ mem.connectors[id] # None
              /\ SaveFaults(RemoveRemoteConnector(mem, id))
              /\ Start(id, mem.connectors[id])
              /\ Recovered(j, "error", 0)
              /\ UNCHANGED <<files, applied>>

Recover(j) ==
    /\ op.step = "recovering"
    /\ Running(j)
    /\ \/ RecoverRestores(j) \/ RecoverRemovesInstall(j) \/ RecoverNothing(j)
       \/ RecoverRemove(j)
       \/ Work[j].kind \in {"install", "update", "rollback"} /\ RecoverCommits(j)
    /\ UNCHANGED journal

SaveRecovered ==
    /\ op.step = "recovered"
    /\ \/ /\ JournalSaved(op.job, op.outcome)
          /\ op' = [step |-> "recovering", caller |-> op.caller]
          /\ UNCHANGED phase
       \/ JournalFaults(op.job, op.outcome) /\ RecoveryFails
    /\ UNCHANGED <<storeVars, childVars, applied>>

\* Every job is settled: serveRemote starts the connectors, and a connector that
\* does not start ends the host; a handler replays its job's outcome, if still there.
RecoveryEnds ==
    /\ op.step = "recovering"
    /\ \A j \in Jobs : ~Running(j)
    /\ \/ /\ op.caller = Startup
          /\ \A id \in Installed(mem) : mem.connectors[id].active.artifact \in files[id]
          /\ children' = [id \in Ids |-> IF mem.connectors[id] = None THEN None
                                         ELSE mem.connectors[id].active]
          /\ phase' = "up"
          /\ op' = Free
       \/ /\ op.caller = Startup
          /\ Installed(mem) # {}
          /\ RecoveryFails
          /\ UNCHANGED children
       \/ /\ op.caller = Worker
          /\ op' = Free
          /\ UNCHANGED <<children, phase>>
       \/ /\ op.caller \in Jobs \X Tokens
          /\ op' = IF journal[op.caller[1]] = None THEN Free
                   ELSE Replaying(op.caller[1], op.caller[2])
          /\ UNCHANGED <<children, phase>>
    /\ UNCHANGED <<storeVars, files, journal, applied, faults>>

----------------------------------------------------------------------------
(* Local commands, and the end of the process.                             *)

LocalUpdate(id, slot) ==
    LET old == mem.connectors[id]
        record == UpdatedRecord(old, slot)
    IN  /\ old # None
        /\ slot.origins = NoOrigins
        /\ AdmitConnector(mem, id, record)
        /\ Saved(PutInventoryConnector(mem, id, record, None))
        /\ files' = [files EXCEPT ![id] = (@ \cup {slot.artifact}) \cap Named(record)]
        /\ children' = [children EXCEPT ![id] = slot]

LocalRemove(id) ==
    /\ mem.connectors[id] # None
    /\ Saved(RemoveLocalConnector(mem, id))
    /\ files' = [files EXCEPT ![id] = {}]
    /\ Stop(id)

LocalStep(id) ==
    /\ phase \in {"starting", "up"}
    /\ op = Free
    /\ CanEnqueueInventoryMutation(mem, id)
    /\ CanRevise(mem)
    /\ LocalRemove(id) \/ \E slot \in Slot : LocalUpdate(id, slot)
    /\ UNCHANGED <<journal, op, sessionVars, applied>>

\* The process is killed, or ends, and is started again: host.json is loaded and
\* CleanupStaging runs before anything else.
Restart ==
    /\ mem' = disk
    /\ disk' = disk
    /\ files' = CleanedUp(disk, files)
    /\ children' = [id \in Ids |-> None]
    /\ phase' = "starting"
    /\ waiting' = {}
    /\ op' = Free
    /\ sending' = None
    /\ UNCHANGED <<journal, attempt, completed, applied, faults>>

ExecutionStep ==
    /\ \/ Replay \/ SaveReplayed
       \/ Announce \/ ExecutionRefused \/ ExecuteShell
       \/ PrepareRollback \/ \E slot \in Slot : Stage(slot)
       \/ Activate \/ ActivateFails \/ Restore \/ CleanupConnectorArtifacts
       \/ Remove \/ RemoveFiles
       \/ Finish \/ RemoveOutcome
    /\ UNCHANGED sessionVars

RecoveryStep ==
    /\ \/ RecoveryBegins \/ SaveRecovered \/ RecoveryEnds
       \/ \E j \in Jobs : Recover(j)
    /\ UNCHANGED <<waiting, sending, attempt, completed>>

Next ==
    /\ \/ \E j \in Jobs : ServerDelivers(j) \/ FlushSends(j)
       \/ \E j \in Jobs, t \in Tokens : HandleManagement(j, t)
       \/ ExecutionStep
       \/ Report
       \/ RecoveryStep
       \/ FlushEnds
       \/ \E id \in Ids : DeliverInventory(id) \/ StartFailure(id)
       \/ \E id \in scenario.local : LocalStep(id)
       \/ Restart
    /\ UNCHANGED scenario

Spec == Init /\ [][Next]_vars

\* The service manager restarts a host that ends; the connectors start if they can
\* for ever; crashes end.
ComesUp == RecoveryStep /\ phase' = "up" /\ phase # "up"

CrashesEnd == <>[][Restart => phase = "failed"]_vars

Frame == UNCHANGED scenario

FairSpec ==
    /\ Spec
    /\ WF_vars(ExecutionStep /\ Frame)
    /\ WF_vars(Report /\ Frame)
    /\ WF_vars(RecoveryStep /\ Frame)
    /\ WF_vars(phase = "failed" /\ Restart /\ Frame)
    /\ SF_vars(ComesUp /\ Frame)
    /\ \A id \in Ids : SF_vars(DeliverInventory(id) /\ Frame)
    /\ CrashesEnd

----------------------------------------------------------------------------
(* Properties.                                                             *)

\* README "without reapplying the lifecycle operation": however often a job is
\* delivered, interrupted, recovered and reported, its command is run and its
\* candidate written to host.json at most once (the journal is written before
\* the operation and removed only once the server has the completion).  A
\* removal is carried out again by recovery and is idempotent.
AppliedOnce == \A j \in DOMAIN Work : Work[j].kind # "remove" => applied[j] <= 1

Promise == INSTANCE Ledger WITH work <- Work

\* Through crashes, redelivery, recovery and failed writes the jobs follow the Ledger:
\* handleManagement executes an operation at most once and only while the server has no
\* completion, and a success the server accepts for a shell, update or rollback, also
\* one that recovery inferred from host.json, is of the latest attempt and was executed.
ImplementsLedger == Promise!Spec

\* The artifact of every active slot is in its directory, for the record in memory
\* and for the one a restart would load: no cleanup of a candidate, a failed
\* staging or a finished update removes it.
ActiveOnDisk ==
    \A id \in Ids, st \in {mem, disk} :
        st.connectors[id] # None => st.connectors[id].active.artifact \in files[id]

\* When no operation holds managementMu, a running child runs the active slot of
\* the installed record: every failed activation, recovery and acknowledgement of
\* new storage origins restarts or stops it.
RunsActiveSlot ==
    phase = "up" /\ op = Free =>
        \A id \in Ids :
            children[id] # None =>
                /\ mem.connectors[id] # None
                /\ children[id] = mem.connectors[id].active

\* README "Completion acknowledgement precedes inventory delivery": the inventory of
\* a transition is delivered only when the server has a completion of its job, and
\* if that is a success it names the very attempt and revision delivered.
DeliveredAfterCompletion ==
    \A id \in Ids :
        LET m == mem.pending[id]
        IN  DeliverInventory(id) /\ m.attempt # None =>
                /\ completed[m.attempt.job] # None
                /\ completed[m.attempt.job].status = "success" =>
                      /\ completed[m.attempt.job].token = m.attempt.token
                      /\ completed[m.attempt.job].revision = m.revision

InventoryFollowsCompletion == [][DeliveredAfterCompletion]_vars

\* handleManagement, having executed an update or rollback, finds its inventory
\* pending: its branch for a transition without a revision is never taken.
TransitionHasInventory ==
    op.step = "succeeded" /\ Kind \in Transitions =>
        RemoteInventoryRevision(Target, op.job) # 0

\* README "The host retries the latest mutation for each installation until Airlock
\* acknowledges its revision": the mutation of a local change gives way only to a
\* newer one or to its acknowledgement.  The code does not keep this: recovery puts
\* back a record over it (recoverInterruptedManagement).
PendingGivesWay ==
    \A id \in Ids :
        /\ mem.pending[id] # None
        /\ mem.pending[id].attempt = None
        /\ mem'.pending[id] = None
        => DeliverInventory(id)

LocalChangesKept == [][PendingGivesWay]_vars

\* A job interrupted by a crash or a failed write is settled in the end:
\* recoverInterruptedManagement gives it an outcome, at startup or in a session.
InterruptedJobsSettle == \A j \in Jobs : Running(j) ~> ~Running(j)

----------------------------------------------------------------------------
(* The inductive invariant.                                                *)

ExecutionSteps ==
    {"journalled", "executing", "staged", "restoring", "activated", "removing",
     "succeeded", "failed"}

\* The attempt whose handler holds managementMu: it executes the job, or answers from
\* the journal.
Executes(h, j, t) == h.step \in ExecutionSteps /\ h.job = j /\ h.token = t

Answers(h, j, t) ==
    \/ h.step = "replaying" /\ h.job = j /\ h.token = t
    \/ h.step \in {"recovering", "recovered"} /\ h.caller = <<j, t>>

\* Handlers take the mutex in the order of their attempts.
AttemptsInOrder ==
    \A j \in Jobs, t \in Tokens :
        /\ <<j, t>> \in waiting => j \in DOMAIN Work /\ t <= attempt[j]
        /\ Executes(op, j, t) \/ Answers(op, j, t) =>
              /\ j \in DOMAIN Work
              /\ t <= attempt[j]
              /\ \A u \in Tokens : <<j, u>> \in waiting => t < u

\* The inventory of job j is pending for the connector in the given state.
BoundTo(st, id, j) ==
    /\ st.pending[id] # None
    /\ st.pending[id].attempt # None
    /\ st.pending[id].attempt.job = j

\* Inventory is bound to the attempt that wrote it, of a transition that was applied.
Bound(st, id, j) ==
    BoundTo(st, id, j) =>
        LET t == st.pending[id].attempt.token
        IN  /\ j \in DOMAIN Work
            /\ Work[j].kind \in Transitions
            /\ Work[j].id = id
            /\ applied[j] > 0
            /\ t <= attempt[j]
            /\ \A u \in Tokens :
                  /\ <<j, u>> \in waiting \/ Answers(op, j, u) => t < u
                  /\ Executes(op, j, u) => t <= u
            /\ Running(j) => journal[j].token = t

\* No attempt binds inventory twice.
BoundOnce(id, j) ==
    /\ BoundTo(mem, id, j)
    /\ BoundTo(disk, id, j)
    /\ mem.pending[id].attempt.token = disk.pending[id].attempt.token
    => mem.pending[id].revision = disk.pending[id].revision

InventoryBound ==
    \A id \in Ids, j \in Jobs : Bound(mem, id, j) /\ Bound(disk, id, j) /\ BoundOnce(id, j)

\* Inventory of job j that is still pending is the one an outcome reports, or was bound
\* by a later attempt.
Reported(st, id, j, o) ==
    BoundTo(st, id, j) =>
        \/ o.token < st.pending[id].attempt.token
        \/ /\ o.token = st.pending[id].attempt.token
           /\ o.revision = st.pending[id].revision

\* What an outcome of job j, wherever it is kept, says of the job: it is of an earlier
\* attempt than those still to be handled, and a success was applied.
OutcomeCoherent(j, o) ==
    /\ j \in DOMAIN Work
    /\ o.token <= attempt[j]
    /\ \A u \in Tokens :
          /\ <<j, u>> \in waiting \/ Answers(op, j, u) => o.token < u
          /\ Executes(op, j, u) => o.token < u \/ (o.status = "running" /\ o.token = u)
    /\ o.revision # 0 => o.status = "success" /\ Work[j].kind \in Transitions
    /\ o.status = "success" =>
          /\ Work[j].kind \in Transitions => o.revision # 0
          /\ Work[j].kind \in Transitions \cup {"shell"} => applied[j] > 0
          /\ \A id \in Ids : Reported(mem, id, j, o) /\ Reported(disk, id, j, o)

OutcomesCoherent ==
    /\ \A j \in Jobs : journal[j] # None => OutcomeCoherent(j, journal[j])
    /\ op.step \in {"replaying", "rebound", "recovered"} =>
          op.outcome.status # "running" /\ OutcomeCoherent(op.job, op.outcome)
    /\ op.step \in {"reporting", "acknowledged"} =>
          OutcomeCoherent(op.completion.job, op.completion)
    /\ sending # None => OutcomeCoherent(sending.job, sending)
    /\ \A j \in Jobs :
          completed[j] # None =>
              /\ completed[j].token = attempt[j]
              /\ OutcomeCoherent(j, completed[j])

\* The journal of a job that was executed or is being reported goes only once the
\* server has a completion, and is not executed again.
JournalKept ==
    /\ \A j \in Jobs :
          /\ journal[j] = None /\ applied[j] > 0 => completed[j] # None
          /\ sending # None /\ sending.job = j =>
                /\ ~Running(j)
                /\ journal[j] = None => completed[j] # None
    /\ op.step = "acknowledged" => completed[op.completion.job] # None
    /\ op.step \in {"replaying", "rebound"} => ~Running(op.job)

\* The job being executed is journalled as running under its attempt, and has not been
\* applied before.  An activated transition has its inventory, in memory and on disk.
ExecutionCoherent ==
    op.step \in ExecutionSteps =>
        /\ Running(op.job)
        /\ journal[op.job].token = op.token
        /\ op.step \in {"journalled", "executing", "staged"} => applied[op.job] = 0
        /\ op.step \in {"staged", "restoring", "activated"} =>
              op.record # None /\ Kind \in {"install", "update", "rollback"}
        /\ op.step = "removing" => Kind = "remove"
        /\ op.step \in {"activated", "succeeded"} /\ Kind \in Transitions \cup {"shell"} =>
              applied[op.job] > 0
        /\ op.step \in {"activated", "succeeded"} /\ Kind \in Transitions =>
              /\ BoundTo(mem, Target, op.job)
              /\ mem.pending[Target].attempt.token = op.token
              /\ disk = mem

\* A child runs the active slot of the installed record, at every step.
ChildrenCurrent ==
    \A id \in Ids :
        children[id] # None =>
            mem.connectors[id] # None /\ children[id] = mem.connectors[id].active

\* The artifact a child runs is in its directory: no cleanup of a candidate, a failed
\* staging, a finished update or a removal takes it away.
ChildrenOnDisk ==
    /\ \A id \in Ids : children[id] # None => children[id].artifact \in files[id]
    /\ op.step = "activated" => children[Target] = op.record.active
    /\ op.step = "removing" => children[Target] = None

\* In every state memory, disk and journal are well formed, load accepts either
\* state, an executed transition has its inventory (handleManagement), and journal,
\* completions and pending inventory agree on what was done.
ManagementInvariant ==
    /\ TypeOK
    /\ Loadable(mem) /\ Loadable(disk)
    /\ ChildrenCurrent
    /\ ChildrenOnDisk
    /\ AttemptsInOrder
    /\ InventoryBound
    /\ OutcomesCoherent
    /\ JournalKept
    /\ ExecutionCoherent
    /\ AppliedOnce
    /\ TransitionHasInventory
============================================================================
