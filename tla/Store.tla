------------------------------- MODULE Store -------------------------------
(***************************************************************************)
(* host.json, the persisted state of the host (state.go), as operators on  *)
(* a state record: what load accepts, what saveStateLocked refuses, and    *)
(* the candidate each Store method writes.  The modules that own a store   *)
(* variable apply them.                                                    *)
(*                                                                         *)
(* A digest, its filename and its manifest are one artifact; Contract maps *)
(* an artifact to its manifest's contract ID (None when it has none).      *)
(***************************************************************************)
EXTENDS Integers, FiniteSets

CONSTANTS
    Ids,          \* installation IDs
    Artifacts,    \* artifact digests
    Contract,     \* [Artifacts -> contract ID or None]
    Settings,     \* connector settings documents
    Origins,      \* storage-origin lists
    NoOrigins,    \* the empty list
    Jobs,         \* management job IDs
    Tokens,       \* management attempt tokens
    MaxHosted,    \* protocol.MaxHostedConnectors
    MaxRevision,  \* the largest uint64
    None          \* a nil pointer or an absent map entry

Slot == [artifact : Artifacts, settings : Settings, origins : Origins]

\* An absent rollback slot is PreviousDigest = "" in the code.
ConnectorRecord ==
    [active : Slot, previous : Slot \cup {None}, acknowledged : BOOLEAN]

ActiveAttempt == [job : Jobs, token : Tokens]

InventoryMutation ==
    [kind : {"upsert"}, revision : 1..MaxRevision,
     active : Artifacts, rollback : Artifacts \cup {None},
     attempt : ActiveAttempt \cup {None}]
    \cup
    [kind : {"remove"}, revision : 1..MaxRevision,
     active : {None}, rollback : {None}, attempt : {None}]

PersistedState ==
    [connectors : [Ids -> ConnectorRecord \cup {None}],
     pending    : [Ids -> InventoryMutation \cup {None}],
     revision   : 0..MaxRevision]

ASSUME StoreAssumption ==
    /\ IsFiniteSet(Ids)
    /\ MaxHosted \in Nat \ {0}
    /\ MaxRevision \in Nat \ {0}
    /\ NoOrigins \in Origins
    /\ None \notin Artifacts
    /\ None \notin Slot
    /\ None \notin ConnectorRecord
    /\ None \notin ActiveAttempt
    /\ None \notin InventoryMutation

\* What the sizes of sets of connectors obey, the connectors being finitely many.
FiniteSizes ==
    \A S \in SUBSET Ids :
        /\ Cardinality(S) \in Nat
        /\ \A T \in SUBSET S : Cardinality(T) <= Cardinality(S)
        /\ \A id \in Ids \ S : Cardinality(S \cup {id}) = Cardinality(S) + 1

\* This follows from StoreAssumption, as SizesAreFinite in InventoryProofs proves. It is
\* named here for the proofs that do without the theorems about finite sets.
ASSUME SizesAssumption == FiniteSizes

EmptyState ==
    [connectors |-> [id \in Ids |-> None],
     pending    |-> [id \in Ids |-> None],
     revision   |-> 0]

----------------------------------------------------------------------------
(* Reading the state.                                                      *)

Installed(st) == {id \in Ids : st.connectors[id] # None}

PendingIds(st) == {id \in Ids : st.pending[id] # None}

PendingRemoval(st, id) ==
    st.pending[id] # None /\ st.pending[id].kind = "remove"

\* Mutant: no limit on pending mutations.
CanEnqueueUnlimited(st, id) == TRUE

CanEnqueueInventoryMutation(st, id) ==
    st.pending[id] # None \/ Cardinality(PendingIds(st)) < MaxHosted

CanRevise(st) == st.revision < MaxRevision

ContractOf(record) == Contract[record.active.artifact]

ValidateSingletonContracts(connectors) ==
    \A i, j \in Ids :
        /\ i # j
        /\ connectors[i] # None
        /\ connectors[j] # None
        /\ ContractOf(connectors[i]) # None
        => ContractOf(connectors[i]) # ContractOf(connectors[j])

RollbackArtifact(record) ==
    IF record.previous = None THEN None ELSE record.previous.artifact

InventoryUpsertMutation(record, revision, attempt) ==
    [kind |-> "upsert", revision |-> revision,
     active |-> record.active.artifact, rollback |-> RollbackArtifact(record),
     attempt |-> attempt]

InventoryRemoveMutation(revision) ==
    [kind |-> "remove", revision |-> revision,
     active |-> None, rollback |-> None, attempt |-> None]

\* What load demands of host.json; a state that fails it stops the host.
Loadable(st) ==
    /\ Cardinality(PendingIds(st)) <= MaxHosted
    /\ \A id \in PendingIds(st) :
          /\ st.pending[id].revision <= st.revision
          /\ (st.pending[id].kind = "upsert") <=> (st.connectors[id] # None)
          /\ st.connectors[id] # None =>
                st.pending[id] = InventoryUpsertMutation(st.connectors[id],
                                    st.pending[id].revision,
                                    st.pending[id].attempt)
    /\ ValidateSingletonContracts(st.connectors)

----------------------------------------------------------------------------
(* Writing the state.                                                      *)

\* saveStateLocked's checks of a candidate against the state in memory.
SaveAccepts(st, candidate) ==
    /\ \A id \in Ids : PendingRemoval(st, id) => candidate.connectors[id] = None
    /\ ValidateSingletonContracts(candidate.connectors)

AdmitConnector(st, id, record) ==
    /\ ~PendingRemoval(st, id)
    /\ st.connectors[id] # None => ContractOf(st.connectors[id]) = ContractOf(record)
    /\ ValidateSingletonContracts([st.connectors EXCEPT ![id] = record])

PutRemoteConnector(st, id, record) ==
    [connectors |-> [st.connectors EXCEPT ![id] =
                        [active |-> record.active, previous |-> record.previous,
                         acknowledged |-> TRUE]],
     pending    |-> [st.pending EXCEPT ![id] = None],
     revision   |-> st.revision]

WithOrigins(slot, origins) ==
    [artifact |-> slot.artifact, settings |-> slot.settings, origins |-> origins]

\* A rollback slot taken from the current record carries its current origins.
InventoryRecord(st, id, record, attempt) ==
    LET current == st.connectors[id]
        previous ==
            IF /\ current # None
               /\ record.previous # None
               /\ current.active.artifact = record.previous.artifact
            THEN WithOrigins(record.previous, current.active.origins)
            ELSE record.previous
        acknowledged == IF current # None THEN current.acknowledged
                                          ELSE record.acknowledged
    IN  [active |-> record.active, previous |-> previous,
         acknowledged |-> attempt = None /\ acknowledged]

\* Mutant: the new revision is not recorded.
PutWithoutRevision(st, id, record, attempt) ==
    LET next == InventoryRecord(st, id, record, attempt)
    IN  [connectors |-> [st.connectors EXCEPT ![id] = next],
         pending    |-> [st.pending EXCEPT ![id] =
                            InventoryUpsertMutation(next, st.revision + 1, attempt)],
         revision   |-> st.revision]

PutInventoryConnector(st, id, record, attempt) ==
    LET next == InventoryRecord(st, id, record, attempt)
    IN  [connectors |-> [st.connectors EXCEPT ![id] = next],
         pending    |-> [st.pending EXCEPT ![id] =
                            InventoryUpsertMutation(next, st.revision + 1, attempt)],
         revision   |-> st.revision + 1]

RemoveRemoteConnector(st, id) ==
    [connectors |-> [st.connectors EXCEPT ![id] = None],
     pending    |-> [st.pending EXCEPT ![id] = None],
     revision   |-> st.revision]

\* Mutant: the removal takes over the revision of the mutation it replaces.
RemoveAtSameRevision(st, id) ==
    [connectors |-> [st.connectors EXCEPT ![id] = None],
     pending    |-> [st.pending EXCEPT ![id] = InventoryRemoveMutation(st.revision)],
     revision   |-> st.revision]

RemoveLocalConnector(st, id) ==
    [connectors |-> [st.connectors EXCEPT ![id] = None],
     pending    |-> [st.pending EXCEPT ![id] = InventoryRemoveMutation(st.revision + 1)],
     revision   |-> st.revision + 1]

\* Mutant: an acknowledgement clears any pending mutation of its kind.
AnyAcknowledgement(st, id, request) ==
    st.pending[id] # None /\ st.pending[id].kind = request.kind

\* Only the revision still pending is acknowledged: an older one is ignored,
\* and a different mutation under the same revision is an error.
Acknowledgeable(st, id, request) ==
    /\ st.pending[id] # None
    /\ st.pending[id].revision = request.revision
    /\ st.pending[id] = request

AcknowledgeInventoryMutation(st, id, request, origins) ==
    [connectors |->
        IF request.kind = "upsert"
        THEN [st.connectors EXCEPT
                 ![id] = [active |-> WithOrigins(st.connectors[id].active, origins),
                          previous |-> st.connectors[id].previous,
                          acknowledged |-> TRUE]]
        ELSE st.connectors,
     pending    |-> [st.pending EXCEPT ![id] = None],
     revision   |-> st.revision]

----------------------------------------------------------------------------
(* The records the lifecycle operations build (host.go).                   *)

\* Mutant: a new installation counts as acknowledged.
FirstRecordAcknowledged(slot) ==
    [active |-> slot, previous |-> None, acknowledged |-> TRUE]

FirstRecord(slot) == [active |-> slot, previous |-> None, acknowledged |-> FALSE]

\* The old active slot becomes the rollback slot.
UpdatedRecord(old, slot) ==
    [active |-> slot, previous |-> old.active, acknowledged |-> old.acknowledged]

RolledBackRecord(old) ==
    [active |-> old.previous, previous |-> old.active,
     acknowledged |-> old.acknowledged]
============================================================================
