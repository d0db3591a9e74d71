----------------------------- MODULE StoreProofs ---------------------------
(***************************************************************************)
(* What the Store operators return: well-formed states, which load accepts.*)
(***************************************************************************)
EXTENDS Store, TLAPS

----------------------------------------------------------------------------
(* The order of revisions, and what the store methods return.              *)

\* A revision is as old as itself.
LEMMA Reflexive == \A a \in Nat : a <= a /\ a + 1 <= a + 1
BY SMT

\* The order is transitive.
LEMMA Transitive == \A a, b, c \in Nat : a <= b /\ b <= c => a <= c
BY SMT

\* Revisions are natural numbers, and a mutation's is not zero.
LEMMA RevisionTypes ==
    /\ \A st \in PersistedState : st.revision \in Nat
    /\ \A m \in InventoryMutation : m.revision \in Nat /\ m.revision # 0
<1>1. \A n \in 0..MaxRevision : n \in Nat
  BY SMT
<1>2. \A n \in 1..MaxRevision : n \in Nat /\ n # 0
  BY SMT
<1>3. \A st \in PersistedState : st.revision \in 0..MaxRevision
  BY Zenon DEF PersistedState
<1>4. \A m \in InventoryMutation : m.revision \in 1..MaxRevision
  BY Zenon DEF InventoryMutation
<1> QED BY <1>1, <1>2, <1>3, <1>4, Zenon

\* The candidate of PutLocalConnector and PutRemoteTransition is a well-formed
\* state.
LEMMA PutInventoryType ==
    ASSUME NEW st \in PersistedState, NEW id \in Ids, NEW record \in ConnectorRecord,
           NEW attempt \in ActiveAttempt \cup {None}, CanRevise(st)
    PROVE  /\ InventoryRecord(st, id, record, attempt) \in ConnectorRecord
           /\ InventoryUpsertMutation(InventoryRecord(st, id, record, attempt),
                  st.revision + 1, attempt) \in InventoryMutation
           /\ PutInventoryConnector(st, id, record, attempt) \in PersistedState
<1> DEFINE next == InventoryRecord(st, id, record, attempt)
           m == InventoryUpsertMutation(next, st.revision + 1, attempt)
<1>1. next \in ConnectorRecord
  <2>1. st.connectors[id] \in ConnectorRecord \cup {None}
    BY Zenon DEF PersistedState
  <2>2. CASE st.connectors[id] = None
    BY <2>2, Zenon DEF InventoryRecord, ConnectorRecord
  <2>3. CASE st.connectors[id] # None
    <3>1. st.connectors[id].active \in Slot /\ st.connectors[id].acknowledged \in BOOLEAN
      BY <2>1, <2>3, Zenon DEF ConnectorRecord
    <3>2. CASE record.previous = None
      BY <2>3, <3>1, <3>2, Zenon DEF InventoryRecord, ConnectorRecord
    <3>3. CASE record.previous # None
      <4>1. record.previous \in Slot
        BY <3>3, Zenon DEF ConnectorRecord
      <4>2. WithOrigins(record.previous, st.connectors[id].active.origins) \in Slot
        BY <4>1, <3>1, Zenon DEF Slot, WithOrigins
      <4> QED
        BY <2>3, <3>1, <4>1, <4>2, Zenon DEF InventoryRecord, ConnectorRecord
    <3> QED BY <3>2, <3>3, Zenon
  <2> QED BY <2>2, <2>3, Zenon
<1>2. st.revision + 1 \in 1..MaxRevision
  BY StoreAssumption DEF PersistedState, CanRevise
<1>3. next.active.artifact \in Artifacts /\ RollbackArtifact(next) \in Artifacts \cup {None}
  BY <1>1, Zenon DEF ConnectorRecord, Slot, RollbackArtifact
<1>4. m \in InventoryMutation
  BY <1>2, <1>3, Zenon DEF InventoryUpsertMutation, InventoryMutation
<1> HIDE DEF next, m
<1>5. [st.connectors EXCEPT ![id] = next] \in [Ids -> ConnectorRecord \cup {None}]
  BY <1>1, Zenon DEF PersistedState
<1>6. [st.pending EXCEPT ![id] = m] \in [Ids -> InventoryMutation \cup {None}]
  BY <1>4, Zenon DEF PersistedState
<1>7. PutInventoryConnector(st, id, record, attempt)
        = [connectors |-> [st.connectors EXCEPT ![id] = next],
           pending    |-> [st.pending EXCEPT ![id] = m],
           revision   |-> st.revision + 1]
  BY Zenon DEF PutInventoryConnector, next, m
<1> QED
  BY <1>1, <1>2, <1>4, <1>5, <1>6, <1>7 DEF PersistedState, next, m

\* So is the candidate of RemoveLocalConnector.
LEMMA RemoveLocalType ==
    ASSUME NEW st \in PersistedState, NEW id \in Ids, CanRevise(st)
    PROVE  /\ InventoryRemoveMutation(st.revision + 1) \in InventoryMutation
           /\ RemoveLocalConnector(st, id) \in PersistedState
<1>1. st.revision + 1 \in 1..MaxRevision
  BY StoreAssumption DEF PersistedState, CanRevise
<1>2. InventoryRemoveMutation(st.revision + 1) \in InventoryMutation
  BY <1>1, Zenon DEF InventoryRemoveMutation, InventoryMutation
<1> QED
  BY <1>1, <1>2 DEF RemoveLocalConnector, PersistedState

\* And so is the candidate of AcknowledgeInventoryMutation, because a loadable
\* state has a record for every pending upsert.
LEMMA AcknowledgeType ==
    ASSUME NEW st \in PersistedState, NEW id \in Ids,
           NEW request \in InventoryMutation, NEW origins \in Origins,
           Loadable(st), Acknowledgeable(st, id, request)
    PROVE  AcknowledgeInventoryMutation(st, id, request, origins) \in PersistedState
<1> DEFINE ack == [active |-> WithOrigins(st.connectors[id].active, origins),
                   previous |-> st.connectors[id].previous, acknowledged |-> TRUE]
<1>1. ASSUME request.kind = "upsert" PROVE ack \in ConnectorRecord
  <2>1. st.connectors[id] # None
    BY <1>1, Zenon DEF Loadable, PendingIds, Acknowledgeable
  <2>2. st.connectors[id] \in ConnectorRecord
    BY <2>1, Zenon DEF PersistedState
  <2>3. WithOrigins(st.connectors[id].active, origins) \in Slot
    BY <2>2, Zenon DEF ConnectorRecord, Slot, WithOrigins
  <2> QED
    BY <2>2, <2>3, Zenon DEF ConnectorRecord
<1>2. AcknowledgeInventoryMutation(st, id, request, origins)
        = [connectors |-> IF request.kind = "upsert"
                          THEN [st.connectors EXCEPT ![id] = ack] ELSE st.connectors,
           pending    |-> [st.pending EXCEPT ![id] = None],
           revision   |-> st.revision]
  BY Zenon DEF AcknowledgeInventoryMutation, PersistedState
<1> HIDE DEF ack
<1> QED
  BY <1>1, <1>2 DEF PersistedState

\* So is the candidate of PutRemoteConnector.
LEMMA PutRemoteType ==
    ASSUME NEW st \in PersistedState, NEW id \in Ids, NEW record \in ConnectorRecord
    PROVE  PutRemoteConnector(st, id, record) \in PersistedState
<1> DEFINE next == [active |-> record.active, previous |-> record.previous,
                    acknowledged |-> TRUE]
<1>1. next \in ConnectorRecord
  BY Zenon DEF ConnectorRecord
<1>2. PutRemoteConnector(st, id, record)
        = [connectors |-> [st.connectors EXCEPT ![id] = next],
           pending    |-> [st.pending EXCEPT ![id] = None],
           revision   |-> st.revision]
  BY Zenon DEF PutRemoteConnector
<1> HIDE DEF next
<1> QED
  BY <1>1, <1>2 DEF PersistedState

\* So is the candidate of RemoveRemoteConnector.
LEMMA RemoveRemoteType ==
    ASSUME NEW st \in PersistedState, NEW id \in Ids
    PROVE  RemoveRemoteConnector(st, id) \in PersistedState
BY Zenon DEF RemoveRemoteConnector, PersistedState

----------------------------------------------------------------------------

\* A change that CanEnqueueInventoryMutation allows keeps the outbox within its
\* bound.
LEMMA PendingBound ==
    ASSUME NEW st \in PersistedState, NEW next, NEW id \in Ids,
           Cardinality(PendingIds(st)) <= MaxHosted,
           CanEnqueueInventoryMutation(st, id),
           PendingIds(next) \subseteq PendingIds(st) \cup {id}
    PROVE  Cardinality(PendingIds(next)) <= MaxHosted
<1>1. PendingIds(st) \in SUBSET Ids /\ PendingIds(st) \cup {id} \in SUBSET Ids
  BY Zenon DEF PendingIds
<1>2. Cardinality(PendingIds(st)) \in Nat /\ Cardinality(PendingIds(st) \cup {id}) \in Nat
  BY <1>1, SizesAssumption, Zenon DEF FiniteSizes
<1>3. Cardinality(PendingIds(st) \cup {id}) <= MaxHosted
  <2>1. CASE id \in PendingIds(st)
    <3>1. PendingIds(st) \cup {id} = PendingIds(st)
      BY <2>1, Zenon
    <3> QED BY <3>1, ZenonT(60)
  <2>2. CASE id \notin PendingIds(st)
    <3>1. Cardinality(PendingIds(st)) < MaxHosted
      BY <2>2, Zenon DEF CanEnqueueInventoryMutation, PendingIds
    <3>2. Cardinality(PendingIds(st) \cup {id}) = Cardinality(PendingIds(st)) + 1
      BY <1>1, <2>2, SizesAssumption, Zenon DEF FiniteSizes
    <3> QED BY <1>2, <3>1, <3>2, StoreAssumption
  <2> QED BY <2>1, <2>2, Zenon
<1>4. /\ Cardinality(PendingIds(next)) \in Nat
      /\ Cardinality(PendingIds(next)) <= Cardinality(PendingIds(st) \cup {id})
  BY <1>1, SizesAssumption, Zenon DEF FiniteSizes
<1> QED BY <1>2, <1>3, <1>4, StoreAssumption

\* load accepts what PutLocalConnector and PutRemoteTransition write.
LEMMA PutInventoryLoadable ==
    ASSUME NEW st \in PersistedState, NEW id \in Ids, NEW record \in ConnectorRecord,
           NEW attempt \in ActiveAttempt \cup {None}, Loadable(st), CanRevise(st),
           CanEnqueueInventoryMutation(st, id),
           SaveAccepts(st, PutInventoryConnector(st, id, record, attempt))
    PROVE  Loadable(PutInventoryConnector(st, id, record, attempt))
<1> DEFINE next == InventoryRecord(st, id, record, attempt)
           m == InventoryUpsertMutation(next, st.revision + 1, attempt)
           cand == PutInventoryConnector(st, id, record, attempt)
<1>1. next \in ConnectorRecord /\ m \in InventoryMutation
  BY PutInventoryType, Zenon
<1>2. m.kind = "upsert" /\ m.revision = st.revision + 1 /\ m.attempt = attempt
  BY Zenon DEF InventoryUpsertMutation
<1>3. m = InventoryUpsertMutation(next, m.revision, m.attempt)
  BY <1>2, Zenon
<1>4. next # None /\ m # None
  BY <1>1, StoreAssumption, Zenon
<1>5. /\ cand.connectors = [st.connectors EXCEPT ![id] = next]
      /\ cand.pending = [st.pending EXCEPT ![id] = m]
      /\ cand.revision = st.revision + 1
  BY Zenon DEF PutInventoryConnector
<1> HIDE DEF next, m, cand
<1>6. PendingIds(cand) \subseteq PendingIds(st) \cup {id}
  BY <1>5, Zenon DEF PendingIds, PersistedState
<1>7. Cardinality(PendingIds(cand)) <= MaxHosted
  BY <1>6, PendingBound, Zenon DEF Loadable
<1>8. ASSUME NEW i \in PendingIds(cand)
      PROVE  /\ cand.pending[i].revision <= cand.revision
             /\ (cand.pending[i].kind = "upsert") <=> (cand.connectors[i] # None)
             /\ cand.connectors[i] # None =>
                   cand.pending[i] = InventoryUpsertMutation(cand.connectors[i],
                                        cand.pending[i].revision, cand.pending[i].attempt)
  <2>1. CASE i = id
    BY <2>1, <1>2, <1>3, <1>4, <1>5, RevisionTypes DEF PersistedState
  <2>2. CASE i # id
    <3>1. /\ i \in PendingIds(st)
          /\ cand.pending[i] = st.pending[i]
          /\ cand.connectors[i] = st.connectors[i]
      BY <2>2, <1>5, Zenon DEF PendingIds, PersistedState
    <3>2. st.pending[i] \in InventoryMutation
      BY <3>1, Zenon DEF PendingIds, PersistedState
    <3> QED
      BY <3>1, <3>2, <1>5, RevisionTypes DEF Loadable
  <2> QED BY <2>1, <2>2, Zenon
<1>9. ValidateSingletonContracts(cand.connectors)
  BY Zenon DEF SaveAccepts, cand
<1> QED
  BY <1>7, <1>8, <1>9, Zenon DEF Loadable, cand

\* load accepts what RemoveLocalConnector writes.
LEMMA RemoveLocalLoadable ==
    ASSUME NEW st \in PersistedState, NEW id \in Ids, Loadable(st), CanRevise(st),
           CanEnqueueInventoryMutation(st, id),
           SaveAccepts(st, RemoveLocalConnector(st, id))
    PROVE  Loadable(RemoveLocalConnector(st, id))
<1> DEFINE m == InventoryRemoveMutation(st.revision + 1)
           cand == RemoveLocalConnector(st, id)
<1>1. /\ cand.connectors = [st.connectors EXCEPT ![id] = None]
      /\ cand.pending = [st.pending EXCEPT ![id] = m]
      /\ cand.revision = st.revision + 1
      /\ m.kind = "remove" /\ m.revision = st.revision + 1
  BY Zenon DEF RemoveLocalConnector, InventoryRemoveMutation
<1> HIDE DEF m, cand
<1>2. PendingIds(cand) \subseteq PendingIds(st) \cup {id}
  BY <1>1, Zenon DEF PendingIds, PersistedState
<1>3. Cardinality(PendingIds(cand)) <= MaxHosted
  BY <1>2, PendingBound, Zenon DEF Loadable
<1>4. ASSUME NEW i \in PendingIds(cand)
      PROVE  /\ cand.pending[i].revision <= cand.revision
             /\ (cand.pending[i].kind = "upsert") <=> (cand.connectors[i] # None)
             /\ cand.connectors[i] # None =>
                   cand.pending[i] = InventoryUpsertMutation(cand.connectors[i],
                                        cand.pending[i].revision, cand.pending[i].attempt)
  <2>1. CASE i = id
    BY <2>1, <1>1, RevisionTypes DEF PersistedState
  <2>2. CASE i # id
    <3>1. /\ i \in PendingIds(st)
          /\ cand.pending[i] = st.pending[i]
          /\ cand.connectors[i] = st.connectors[i]
      BY <2>2, <1>1, Zenon DEF PendingIds, PersistedState
    <3>2. st.pending[i] \in InventoryMutation
      BY <3>1, Zenon DEF PendingIds, PersistedState
    <3> QED
      BY <3>1, <3>2, <1>1, RevisionTypes DEF Loadable
  <2> QED BY <2>1, <2>2, Zenon
<1>5. ValidateSingletonContracts(cand.connectors)
  BY Zenon DEF SaveAccepts, cand
<1> QED
  BY <1>3, <1>4, <1>5, Zenon DEF Loadable, cand

\* load accepts a state from which the mutation of one connector was cleared,
\* whatever became of its record.
LEMMA ClearedLoadable ==
    ASSUME NEW st \in PersistedState, NEW id \in Ids, NEW next, Loadable(st),
           next.pending = [st.pending EXCEPT ![id] = None],
           next.revision = st.revision,
           \A i \in Ids : i # id => next.connectors[i] = st.connectors[i],
           ValidateSingletonContracts(next.connectors)
    PROVE  Loadable(next)
<1>1. PendingIds(next) \subseteq PendingIds(st) /\ id \notin PendingIds(next)
  BY Zenon DEF PendingIds, PersistedState
<1>2. Cardinality(PendingIds(next)) <= MaxHosted
  <2>1. PendingIds(st) \in SUBSET Ids /\ PendingIds(next) \in SUBSET PendingIds(st)
    BY <1>1, Zenon DEF PendingIds
  <2>2. /\ Cardinality(PendingIds(st)) \in Nat
        /\ Cardinality(PendingIds(next)) \in Nat
        /\ Cardinality(PendingIds(next)) <= Cardinality(PendingIds(st))
    BY <2>1, SizesAssumption, Zenon DEF FiniteSizes
  <2> QED
    BY <2>2, StoreAssumption DEF Loadable
<1>3. ASSUME NEW i \in PendingIds(next)
      PROVE  /\ i \in PendingIds(st)
             /\ next.pending[i] = st.pending[i]
             /\ next.connectors[i] = st.connectors[i]
  BY <1>1, Zenon DEF PendingIds, PersistedState
<1> QED
  BY <1>2, <1>3, Zenon DEF Loadable

\* load accepts what AcknowledgeInventoryMutation writes.
LEMMA AcknowledgeLoadable ==
    ASSUME NEW st \in PersistedState, NEW id \in Ids,
           NEW request \in InventoryMutation, NEW origins \in Origins, Loadable(st),
           SaveAccepts(st, AcknowledgeInventoryMutation(st, id, request, origins))
    PROVE  Loadable(AcknowledgeInventoryMutation(st, id, request, origins))
<1> DEFINE cand == AcknowledgeInventoryMutation(st, id, request, origins)
<1>1. /\ cand.pending = [st.pending EXCEPT ![id] = None]
      /\ cand.revision = st.revision
      /\ \A i \in Ids : i # id => cand.connectors[i] = st.connectors[i]
  BY Zenon DEF AcknowledgeInventoryMutation, PersistedState
<1>2. ValidateSingletonContracts(cand.connectors)
  BY Zenon DEF SaveAccepts
<1> HIDE DEF cand
<1>3. Loadable(cand)
  BY <1>1, <1>2, ClearedLoadable, Zenon
<1> QED
  BY <1>3, Zenon DEF cand

\* load accepts what PutRemoteConnector writes.
LEMMA PutRemoteLoadable ==
    ASSUME NEW st \in PersistedState, NEW id \in Ids, NEW record \in ConnectorRecord,
           Loadable(st), SaveAccepts(st, PutRemoteConnector(st, id, record))
    PROVE  Loadable(PutRemoteConnector(st, id, record))
<1> DEFINE cand == PutRemoteConnector(st, id, record)
<1>1. /\ cand.pending = [st.pending EXCEPT ![id] = None]
      /\ cand.revision = st.revision
      /\ \A i \in Ids : i # id => cand.connectors[i] = st.connectors[i]
  BY Zenon DEF PutRemoteConnector, PersistedState
<1>2. ValidateSingletonContracts(cand.connectors)
  BY Zenon DEF SaveAccepts
<1> HIDE DEF cand
<1>3. Loadable(cand)
  BY <1>1, <1>2, ClearedLoadable, Zenon
<1> QED
  BY <1>3, Zenon DEF cand

\* load accepts what RemoveRemoteConnector writes.
LEMMA RemoveRemoteLoadable ==
    ASSUME NEW st \in PersistedState, NEW id \in Ids, Loadable(st),
           SaveAccepts(st, RemoveRemoteConnector(st, id))
    PROVE  Loadable(RemoveRemoteConnector(st, id))
<1> DEFINE cand == RemoveRemoteConnector(st, id)
<1>1. /\ cand.pending = [st.pending EXCEPT ![id] = None]
      /\ cand.revision = st.revision
      /\ \A i \in Ids : i # id => cand.connectors[i] = st.connectors[i]
  BY Zenon DEF RemoveRemoteConnector, PersistedState
<1>2. ValidateSingletonContracts(cand.connectors)
  BY Zenon DEF SaveAccepts
<1> HIDE DEF cand
<1>3. Loadable(cand)
  BY <1>1, <1>2, ClearedLoadable, Zenon
<1> QED
  BY <1>3, Zenon DEF cand
============================================================================
