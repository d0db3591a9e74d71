----------------------------- MODULE Inventory -----------------------------
(***************************************************************************)
(* The inventory outbox: lifecycle changes are written to host.json with   *)
(* the mutation that tells the server about them, and the session delivers *)
(* each mutation until the server acknowledges its revision (state.go,     *)
(* host.go flushInventoryMutations and syncRequest).                       *)
(*                                                                         *)
(* Saves may fail after the rename, so that disk runs ahead of memory; the *)
(* host may restart at any time; sessions end at any time, and a request   *)
(* of a dead session may still reach the server, later than newer ones.    *)
(* The server is external: it applies a mutation unless it has a newer one.*)
(***************************************************************************)
EXTENDS Store

VARIABLES
    mem,        \* Store.state
    disk,       \* host.json
    held,       \* managementMu is held by a lifecycle operation
    journal,    \* [Jobs -> the connector whose transition is journalled, or None]
    completed,  \* jobs whose completion the server acknowledged
    session,    \* the control session: "down", "opening" or "open"
    flush,      \* [Ids -> the mutation a delivery worker holds, or None]
    wire,       \* requests on their way to the server
    server,     \* [Ids -> the newest revision the server applied, and its view]
    synced,     \* syncRequest's first read of the store, or None
    report,     \* [Ids -> the artifact the last sync request reported, or None]
    issued      \* history: every mutation a delivery worker was given

storeVars  == <<mem, disk>>
jobVars    == <<journal, completed>>
remoteVars == <<wire, server>>
syncVars   == <<synced, report>>
vars == <<mem, disk, held, journal, completed, session, flush, wire, server,
          synced, report, issued>>

View == [active : Artifacts, rollback : Artifacts \cup {None}]

ASSUME ViewAssumption == None \notin View

ViewOf(st, id) ==
    IF st.connectors[id] = None THEN None
    ELSE [active   |-> st.connectors[id].active.artifact,
          rollback |-> RollbackArtifact(st.connectors[id])]

MutationView(m) ==
    IF m.kind = "upsert" THEN [active |-> m.active, rollback |-> m.rollback] ELSE None

Delivery ==
    [mutation : InventoryMutation, phase : {"queued", "sent", "answered"},
     origins : Origins]

Request == [id : Ids, mutation : InventoryMutation, live : BOOLEAN]

TypeOK ==
    /\ mem \in PersistedState
    /\ disk \in PersistedState
    /\ held \in BOOLEAN
    /\ journal \in [Jobs -> Ids \cup {None}]
    /\ completed \in SUBSET Jobs
    /\ session \in {"down", "opening", "open"}
    /\ flush \in [Ids -> Delivery \cup {None}]
    /\ wire \in SUBSET Request
    /\ server \in [Ids -> [revision : 0..MaxRevision, view : View \cup {None}]]
    /\ synced \in [Ids -> Artifacts \cup {None}] \cup {None}
    /\ report \in [Ids -> Artifacts \cup {None}]
    /\ issued \in SUBSET (Ids \X InventoryMutation)

NoDelivery == [id \in Ids |-> None]

Init ==
    /\ mem = EmptyState
    /\ disk = EmptyState
    /\ held = FALSE
    /\ journal = [j \in Jobs |-> None]
    /\ completed = {}
    /\ session = "down"
    /\ flush = NoDelivery
    /\ wire = {}
    /\ server = [id \in Ids |-> [revision |-> 0, view |-> None]]
    /\ synced = None
    /\ report = [id \in Ids |-> None]
    /\ issued = {}

\* saveStateLocked and the assignment after it.  The write can fail after the
\* rename (syncDirectory), which leaves the candidate on disk and not in memory.
Save(candidate) ==
    /\ SaveAccepts(mem, candidate)
    /\ disk' = candidate
    /\ mem' \in {mem, candidate}

----------------------------------------------------------------------------
(* Lifecycle operations, under managementMu.                               *)

LockManagement ==
    /\ ~held
    /\ held' = TRUE
    /\ UNCHANGED <<storeVars, jobVars, session, flush, remoteVars, syncVars, issued>>

\* The operation fails, before Activate or in it; the latter rewrites host.json
\* from memory (rewriteCurrentState).
OperationFails ==
    /\ held
    /\ held' = FALSE
    /\ disk' \in {disk, mem}
    /\ UNCHANGED <<mem, jobVars, session, flush, remoteVars, syncVars, issued>>

\* Activate: admit the candidate, persist it with its inventory mutation.
ActivateInventory(id, record, attempt) ==
    /\ held
    /\ AdmitConnector(mem, id, record)
    /\ CanEnqueueInventoryMutation(mem, id)
    /\ CanRevise(mem)
    /\ Save(PutInventoryConnector(mem, id, record, attempt))
    /\ held' = FALSE
    /\ UNCHANGED <<session, flush, remoteVars, syncVars, issued>>

\* StageLocal gives no storage origins; the acknowledgement brings them.
LocalSlot == {slot \in Slot : slot.origins = NoOrigins}

InstallLocal(id, slot) ==
    /\ mem.connectors[id] = None
    /\ Cardinality(Installed(mem)) < MaxHosted
    /\ ActivateInventory(id, FirstRecord(slot), None)
    /\ UNCHANGED jobVars

UpdateLocal(id, slot) ==
    /\ mem.connectors[id] # None
    /\ ActivateInventory(id, UpdatedRecord(mem.connectors[id], slot), None)
    /\ UNCHANGED jobVars

RollbackLocal(id) ==
    /\ mem.connectors[id] # None
    /\ mem.connectors[id].previous # None
    /\ ActivateInventory(id, RolledBackRecord(mem.connectors[id]), None)
    /\ UNCHANGED jobVars

RemoveLocal(id) ==
    /\ held
    /\ mem.connectors[id] # None
    /\ CanEnqueueInventoryMutation(mem, id)
    /\ CanRevise(mem)
    /\ Save(RemoveLocalConnector(mem, id))
    /\ held' = FALSE
    /\ UNCHANGED <<jobVars, session, flush, remoteVars, syncVars, issued>>

\* A remote update or rollback, persisted while its job is journalled.
RemoteTransition(id, attempt, record) ==
    /\ mem.connectors[id] # None
    /\ journal[attempt.job] = None
    /\ attempt.job \notin completed
    /\ ActivateInventory(id, record, attempt)
    /\ journal' = [journal EXCEPT ![attempt.job] = id]
    /\ UNCHANGED completed

\* A redelivered job binds its inventory to the new attempt.
RebindTransition(id, attempt) ==
    /\ held
    /\ journal[attempt.job] = id
    /\ mem.connectors[id] # None
    /\ CanEnqueueInventoryMutation(mem, id)
    /\ CanRevise(mem)
    /\ Save(PutInventoryConnector(mem, id, mem.connectors[id], attempt))
    /\ held' = FALSE
    /\ UNCHANGED <<jobVars, session, flush, remoteVars, syncVars, issued>>

\* The server acknowledges a management completion; its journal is removed.
CompletionAcknowledged(j) ==
    /\ session # "down"
    /\ journal[j] # None
    /\ journal' = [journal EXCEPT ![j] = None]
    /\ completed' = completed \cup {j}
    /\ UNCHANGED <<storeVars, held, session, flush, remoteVars, syncVars, issued>>

----------------------------------------------------------------------------
(* The control session and flushInventoryMutations.                        *)

\* PendingInventoryMutations is snapshotted for the delivery workers.
FlushPending ==
    /\ flush = NoDelivery
    /\ flush' = [id \in Ids |->
                    IF mem.pending[id] = None THEN None
                    ELSE [mutation |-> mem.pending[id], phase |-> "queued",
                          origins |-> NoOrigins]]
    /\ issued' = issued \cup {<<id, mem.pending[id]>> : id \in PendingIds(mem)}

\* A session opens with a flush.
Connect ==
    /\ session = "down"
    /\ session' = "opening"
    /\ FlushPending
    /\ UNCHANGED <<storeVars, held, jobVars, remoteVars, syncVars>>

\* The recovery worker's flush, every 20 seconds.
FlushInventoryMutations ==
    /\ session = "open"
    /\ FlushPending
    /\ UNCHANGED <<storeVars, held, jobVars, session, remoteVars, syncVars>>

\* Mutant: the mutation of a remote transition is never delivered.
FencedForever(m) == m.attempt # None

\* The transition's management outcome is still journalled.
Fenced(m) == m.attempt # None /\ journal[m.attempt.job] # None

InPhase(id, phase) == flush[id] # None /\ flush[id].phase = phase

\* The worker skips a mutation whose management outcome is not acknowledged.
SkipFenced(id) ==
    /\ InPhase(id, "queued")
    /\ Fenced(flush[id].mutation)
    /\ flush' = [flush EXCEPT ![id] = None]
    /\ UNCHANGED <<storeVars, held, jobVars, session, remoteVars, syncVars, issued>>

SendMutation(id) ==
    /\ session # "down"
    /\ InPhase(id, "queued")
    /\ ~Fenced(flush[id].mutation)
    /\ flush' = [flush EXCEPT ![id] = [mutation |-> flush[id].mutation,
                                       phase |-> "sent", origins |-> NoOrigins]]
    /\ wire' = wire \cup {[id |-> id, mutation |-> flush[id].mutation, live |-> TRUE]}
    /\ UNCHANGED <<storeVars, held, jobVars, session, server, syncVars, issued>>

\* External: the server applies a mutation newer than the one it has.
Apply(id, m) ==
    IF m.revision > server[id].revision
    THEN [server EXCEPT ![id] = [revision |-> m.revision, view |-> MutationView(m)]]
    ELSE server

\* External: the request is applied, and its reply reaches the worker.
ServerReplies(id, origins) ==
    LET r == [id |-> id, mutation |-> flush[id].mutation, live |-> TRUE]
    IN  /\ InPhase(id, "sent")
        /\ r \in wire
        /\ r.mutation.kind = "remove" => origins = NoOrigins
        /\ server' = Apply(id, r.mutation)
        /\ wire' = wire \ {r}
        /\ flush' = [flush EXCEPT ![id] = [mutation |-> r.mutation,
                                           phase |-> "answered", origins |-> origins]]
        /\ UNCHANGED <<storeVars, held, jobVars, session, syncVars, issued>>

\* External: the request is applied, and no reply reaches anyone.
ServerAppliesSilently(r) ==
    /\ r \in wire
    /\ server' = Apply(r.id, r.mutation)
    /\ wire' = wire \ {r}
    /\ UNCHANGED <<storeVars, held, jobVars, session, flush, syncVars, issued>>

\* The network loses a request, or the server refuses it.
LoseRequest(r) ==
    /\ r \in wire
    /\ wire' = wire \ {r}
    /\ UNCHANGED <<storeVars, held, jobVars, session, flush, server, syncVars, issued>>

\* TryLock succeeds: AcknowledgeInventoryMutation.
Acknowledge(id) ==
    /\ ~held
    /\ InPhase(id, "answered")
    /\ LET d == flush[id]
       IN  IF Acknowledgeable(mem, id, d.mutation)
           THEN Save(AcknowledgeInventoryMutation(mem, id, d.mutation, d.origins))
           ELSE UNCHANGED storeVars
    /\ flush' = [flush EXCEPT ![id] = None]
    /\ UNCHANGED <<held, jobVars, session, remoteVars, syncVars, issued>>

\* TryLock fails: the answer is dropped and the mutation stays pending.
DropAnswer(id) ==
    /\ held
    /\ InPhase(id, "answered")
    /\ flush' = [flush EXCEPT ![id] = None]
    /\ UNCHANGED <<storeVars, held, jobVars, session, remoteVars, syncVars, issued>>

Orphan(requests) ==
    {[id |-> r.id, mutation |-> r.mutation, live |-> FALSE] : r \in requests}

\* The session ends: unanswered calls fail, answers already received are kept.
Disconnect ==
    /\ session # "down"
    /\ session' = "down"
    /\ flush' = [id \in Ids |-> IF InPhase(id, "answered") THEN flush[id] ELSE None]
    /\ wire' = Orphan(wire)
    /\ synced' = None
    /\ UNCHANGED <<storeVars, held, jobVars, server, report, issued>>

----------------------------------------------------------------------------
(* syncRequest: two reads of the store.                                    *)

\* The digests of the acknowledged records.
SyncReadsStore ==
    /\ session = "open" \/ (session = "opening" /\ flush = NoDelivery)
    /\ synced = None
    /\ synced' = [id \in Ids |->
                     IF mem.connectors[id] # None /\ mem.connectors[id].acknowledged
                     THEN mem.connectors[id].active.artifact ELSE None]
    /\ UNCHANGED <<storeVars, held, jobVars, session, flush, remoteVars, report, issued>>

\* Supervisor.Statuses reads the records again; digests that moved are left out.
SyncSends ==
    /\ synced # None
    /\ report' = [id \in Ids |->
                     IF /\ synced[id] # None
                        /\ mem.connectors[id] # None
                        /\ mem.connectors[id].active.artifact = synced[id]
                     THEN synced[id] ELSE None]
    /\ synced' = None
    /\ session' = "open"
    /\ UNCHANGED <<storeVars, held, jobVars, flush, remoteVars, issued>>

----------------------------------------------------------------------------

\* The process dies and a new one opens the store.
Restart ==
    /\ Loadable(disk)
    /\ mem' = disk
    /\ held' = FALSE
    /\ session' = "down"
    /\ flush' = NoDelivery
    /\ wire' = Orphan(wire)
    /\ synced' = None
    /\ UNCHANGED <<disk, jobVars, server, report, issued>>

LifecycleStep ==
    \/ OperationFails
    \/ \E id \in Ids, slot \in LocalSlot : InstallLocal(id, slot) \/ UpdateLocal(id, slot)
    \/ \E id \in Ids : RollbackLocal(id) \/ RemoveLocal(id)
    \/ \E id \in Ids, a \in ActiveAttempt : RebindTransition(id, a)
    \/ \E id \in Ids, a \in ActiveAttempt :
          /\ mem.connectors[id] # None
          /\ \E record \in {UpdatedRecord(mem.connectors[id], s) : s \in Slot}
                             \cup {r \in {RolledBackRecord(mem.connectors[id])} :
                                      mem.connectors[id].previous # None} :
                RemoteTransition(id, a, record)

DeliveryStep ==
    \/ Connect
    \/ FlushInventoryMutations
    \/ Disconnect
    \/ \E id \in Ids :
          \/ SkipFenced(id)
          \/ SendMutation(id)
          \/ \E o \in Origins : ServerReplies(id, o)
          \/ Acknowledge(id)
          \/ DropAnswer(id)
    \/ \E r \in wire : ServerAppliesSilently(r) \/ LoseRequest(r)
    \/ \E j \in Jobs : CompletionAcknowledged(j)

Next ==
    \/ LockManagement
    \/ LifecycleStep
    \/ DeliveryStep
    \/ SyncReadsStore
    \/ SyncSends
    \/ Restart

Spec == Init /\ [][Next]_vars

\* Sessions are reopened and flushes repeated by their loops; a call that is
\* tried over and over is eventually answered, and an acknowledgement that is
\* received over and over is eventually saved.
SavedAcknowledgement(id) == Acknowledge(id) /\ mem'.pending[id] = None

\* A flush has ten seconds; the call it is waiting on then closes the session.
FlushTimesOut == (\E id \in Ids : InPhase(id, "sent")) /\ Disconnect

Fairness ==
    /\ WF_vars(Connect)
    /\ WF_vars(SyncReadsStore)
    /\ WF_vars(SyncSends)
    /\ WF_vars(FlushInventoryMutations)
    /\ WF_vars(FlushTimesOut)
    /\ \A j \in Jobs : SF_vars(CompletionAcknowledged(j))
    /\ \A id \in Ids :
          /\ WF_vars(SkipFenced(id))
          /\ SF_vars(SendMutation(id))
          /\ SF_vars(\E o \in Origins : ServerReplies(id, o))
          /\ WF_vars(Acknowledge(id) \/ DropAnswer(id))
          /\ SF_vars(SavedAcknowledgement(id))

FairSpec == Spec /\ Fairness

----------------------------------------------------------------------------
(* Properties.                                                             *)

\* Whatever a save, a failed save or a restart leaves in host.json, load accepts
\* it (state.go load): the host never locks itself out of its own state.
ReloadValid == Loadable(disk) /\ Loadable(mem)

\* A connector with no pending mutation is known to the server exactly as it is
\* installed: no coalesced, reordered or late acknowledgement clears a mutation
\* the server has not applied (AcknowledgeInventoryMutation).
InSync ==
    \A id \in Ids : mem.pending[id] = None => server[id].view = ViewOf(mem, id)

\* One revision never names two mutations, across failed saves and restarts
\* (nextMutationRevision): the server may deduplicate by revision alone.
RevisionNamesOneMutation ==
    \A x, y \in issued : x[2].revision = y[2].revision => x = y

\* A record that compact sync may report is one the server has an installation
\* for; a fenced transition is not reported (syncRequest).
AcknowledgedIsKnown ==
    \A id \in Ids :
        mem.connectors[id] # None /\ mem.connectors[id].acknowledged =>
            /\ server[id].view # None
            /\ mem.pending[id] # None => mem.pending[id].attempt = None

\* Once lifecycle operations stop, the server ends up with the installed
\* inventory and nothing stays pending (flushInventoryMutations), however often
\* the session and the host go down.
Converges ==
    <>[]~held =>
        <>[](\A id \in Ids : mem.pending[id] = None /\ server[id].view = ViewOf(mem, id))

----------------------------------------------------------------------------
(* The inductive invariant behind the safety properties.                   *)

\* The mutations the server may ever be sent from here on without a new change:
\* those already given to a worker, and those pending in memory.
Deliverable ==
    issued \cup {<<id, mem.pending[id]>> : id \in PendingIds(mem)}

\* What holds of a store state st (memory, or the disk a restart would load)
\* against the deliverable mutations C and the server srv.
Coherent(st, C, srv) ==
    /\ Loadable(st)
    /\ \A c \in C : c[2].revision <= st.revision
    /\ \A c \in C : st.pending[c[1]] # None =>
          c[2].revision <= st.pending[c[1]].revision
    /\ \A c \in C : st.pending[c[1]] = None => c[2].revision <= srv[c[1]].revision
    /\ \A c \in C : c[2].kind = "remove" /\ st.connectors[c[1]] # None =>
          c[2].revision <= srv[c[1]].revision
    /\ \A c \in C, id \in PendingIds(st) :
          c[2].revision = st.pending[id].revision => c = <<id, st.pending[id]>>
    /\ \A i, j \in PendingIds(st) :
          st.pending[i].revision = st.pending[j].revision => i = j
    /\ \A id \in Ids : st.pending[id] = None => srv[id].view = ViewOf(st, id)
    /\ \A id \in Ids :
          st.connectors[id] # None /\ st.connectors[id].acknowledged =>
             /\ srv[id].view # None
             /\ st.pending[id] # None => st.pending[id].attempt = None

\* The server's entry is initial or is one of the mutations in C.
Sourced(srv, id, C) ==
    \/ srv[id] = [revision |-> 0, view |-> None]
    \/ \E c \in C : c[1] = id /\ srv[id] =
          [revision |-> c[2].revision, view |-> MutationView(c[2])]

\* The server's view is one a worker was given, and a reply follows its effect.
DeliveryCoherent ==
    /\ \A id \in Ids : Sourced(server, id, issued)
    /\ \A id \in Ids : flush[id] # None =>
          /\ <<id, flush[id].mutation>> \in issued
          /\ flush[id].phase = "answered" =>
                flush[id].mutation.revision <= server[id].revision
    /\ \A r \in wire : <<r.id, r.mutation>> \in issued

\* Memory and disk both agree with everything that was or may be sent: the
\* inductive form of ReloadValid, InSync, RevisionNamesOneMutation and
\* AcknowledgedIsKnown.
InventoryInvariant ==
    /\ TypeOK
    /\ Coherent(mem, Deliverable, server)
    /\ Coherent(disk, Deliverable, server)
    /\ \A x, y \in Deliverable : x[2].revision = y[2].revision => x = y
    /\ DeliveryCoherent

----------------------------------------------------------------------------
(* Refinement.                                                             *)

\* What a mutation given to a worker registers.
Registration(c) == [id |-> c[1], revision |-> c[2].revision, view |-> MutationView(c[2])]

Promise == INSTANCE Registry
    WITH offered <- {Registration(c) : c \in issued}, NoView <- None

\* Delivery with crashes, half saves, retries and lost replies implements the
\* Registry: what PendingInventoryMutations hands out only gets newer, and Airlock
\* never goes back (flushInventoryMutations, AcknowledgeInventoryMutation).
ImplementsRegistry == Promise!Spec
============================================================================
